---------------------------- MODULE Spec2Model ----------------------------
(***************************************************************************)
(* A model of the expense-tracking endpoints of ToolBoxWebServices:        *)
(* the userid middleware, ExpenseViewSet (list, retrieve, create, update,  *)
(* partial_update, destroy, summary, monthly_report, add_tags,             *)
(* remove_tags), ExpenseFilter, the two expense serializers, the category  *)
(* endpoints (ExpenseCategoryViewSet), the login view, the array-sum tool  *)
(* (ArraySumToolView) with its execution records, and the tools registry   *)
(* (ToolCategoryViewSet, ToolViewSet).                                     *)
(*                                                                         *)
(* Conventions.  A query-string value is a sequence of one-character       *)
(* strings ("12" is <<"1","2">>); an absent parameter is <<>>.  Amounts    *)
(* are integers: thousandths in a request body (so that a third decimal    *)
(* place can be written), hundredths (cents) once stored.  A date is a     *)
(* triple <<year, month, day>>.  A queryset is a bag of primary keys: a    *)
(* function from the keys of its rows to the number of rows with that key. *)
(***************************************************************************)
EXTENDS Integers, Sequences, FiniteSets, TLC

VARIABLES
    expenses,   \* the expenses_expense table: primary key -> row
    next_id,    \* the next primary key the table hands out
    req,        \* the request handled last
    resp,       \* the response it was answered with
    tools,      \* the tools_toolcategory and tools_tool tables, with the
                \* keys their sequences have handed out
    executions, \* the tools_toolexecution table: its rows by primary key
    db,         \* whether the database took writes during that request
    categories, \* the expenses_expensecategory table: primary key -> row
    inflight    \* the update requests between their first read and last write

vars == <<expenses, next_id, req, resp, tools, executions, db, categories,
          inflight>>

-----------------------------------------------------------------------------
(* Bounds of the model *)

\* how many expense rows are ever inserted
MaxExpenses == 2

-----------------------------------------------------------------------------
(* Values *)

\* SQL NULL / Python None for a foreign key or an aggregate over no rows
NULL == 0

Digits == {"0", "1", "2", "3", "4", "5", "6", "7", "8", "9"}

DigitValue(c) ==
    CASE c = "0" -> 0 [] c = "1" -> 1 [] c = "2" -> 2 [] c = "3" -> 3
      [] c = "4" -> 4 [] c = "5" -> 5 [] c = "6" -> 6 [] c = "7" -> 7
      [] c = "8" -> 8 [] c = "9" -> 9

\* int(s) succeeds (no ValueError)
IsInt(s) == Len(s) > 0 /\ \A i \in 1..Len(s) : s[i] \in Digits

RECURSIVE ParseInt(_)
\* int(s) for a string of decimal digits
ParseInt(s) ==
    IF Len(s) = 0 THEN 0
    ELSE 10 * ParseInt(SubSeq(s, 1, Len(s) - 1)) + DigitValue(s[Len(s)])

RECURSIVE SumOver(_, _)
\* the sum of f[x] over the finite set S
SumOver(f, S) ==
    IF S = {} THEN 0
    ELSE LET x == CHOOSE y \in S : TRUE
         IN  f[x] + SumOver(f, S \ {x})

\* an exclusive bound: a < b
DateLess(a, b) ==
    \/ a[1] < b[1]
    \/ a[1] = b[1] /\ a[2] < b[2]
    \/ a[1] = b[1] /\ a[2] = b[2] /\ a[3] < b[3]

\* date comparison: a <= b on <<year, month, day>>
DateLeq(a, b) ==
    \/ a[1] < b[1]
    \/ a[1] = b[1] /\ a[2] < b[2]
    \/ a[1] = b[1] /\ a[2] = b[2] /\ a[3] <= b[3]

\* the bag holding each key of S once
BagOf(S) == [i \in S |-> 1]

\* the rows of bag q whose key is in S (a WHERE clause on the row's own columns)
Restrict(q, S) == [i \in DOMAIN q \cap S |-> q[i]]

\* a calendar date: month 1..12, day within the month (February has 28 days here)
IsDate(d) ==
    /\ d[1] >= 1
    /\ d[2] \in 1..12
    /\ d[3] >= 1
    /\ d[3] <= (CASE d[2] = 2 -> 28
                  [] d[2] \in {4, 6, 9, 11} -> 30
                  [] OTHER -> 31)

\* str.lower() on one character
Lower(c) ==
    CASE c = "A" -> "a" [] c = "B" -> "b" [] c = "E" -> "e" [] c = "T" -> "t"
      [] OTHER -> c

\* needle is a substring of hay, case-insensitively (SQL icontains); an absent
\* (NULL) column is written <<>> and matches nothing
IContains(hay, needle) ==
    \E k \in 0..(Len(hay) - Len(needle)) :
        \A i \in 1..Len(needle) : Lower(hay[k + i]) = Lower(needle[i])

RECURSIVE Split(_, _)
\* s.split(sep): the pieces of s between occurrences of the character sep
Split(s, sep) ==
    IF \A i \in 1..Len(s) : s[i] # sep THEN <<s>>
    ELSE LET k == CHOOSE i \in 1..Len(s) :
                      s[i] = sep /\ \A j \in 1..(i - 1) : s[j] # sep
         IN  <<SubSeq(s, 1, k - 1)>> \o Split(SubSeq(s, k + 1, Len(s)), sep)

-----------------------------------------------------------------------------
(* The other tables *)

\* auth_user: id -> row; the password column is written as the password it
\* is the hash of
auth_user ==
    [u \in {1, 2, 3} |->
        [is_active |-> u # 3,
         password |-> IF u = 1 THEN "pw1" ELSE IF u = 2 THEN "pw2" ELSE "pw3",
         username |-> IF u = 1 THEN "ann" ELSE IF u = 2 THEN "bob" ELSE "cat"]]

\* expenses_expensecategory: id -> row
ExpenseCategory ==
    [c \in {1, 2, 3} |->
        CASE c = 1 -> [color |-> "#111111", name |-> "Rent",   transaction_type |-> "expense"]
          [] c = 2 -> [color |-> "#222222", name |-> "Food",   transaction_type |-> "expense"]
          [] c = 3 -> [color |-> "#333333", name |-> "Salary", transaction_type |-> "income"]]

\* the table as a state: every category starts active (is_active defaults to
\* True).  ExpenseCategory above is what the expense handlers read while no
\* category request has written to it.
Categories ==
    [c \in DOMAIN ExpenseCategory |->
        [is_active |-> TRUE, name |-> ExpenseCategory[c].name,
         transaction_type |-> ExpenseCategory[c].transaction_type]]

\* expenses_expensetag: id -> row
ExpenseTag ==
    [t \in {1, 2, 3} |->
        [name |-> IF t = 1 THEN "w" ELSE IF t = 2 THEN "h" ELSE "t",
         user |-> IF t = 3 THEN 2 ELSE 1]]

\* the tables of the tools app after migration: no category, no tool, no
\* key handed out
NoTools ==
    [category |-> <<>>,
     sequence |-> [category |-> 0, execution |-> 0, tool |-> 0],
     tool |-> <<>>]

\* Expense.TRANSACTION_TYPE_CHOICES
TRANSACTION_TYPE_CHOICES == {"expense", "income", "credit", "debt", "repayment"}

-----------------------------------------------------------------------------
(* Access scoping *)

\* UserIdValidationMiddleware.__call__: TRUE when the request reaches the view
MiddlewarePasses(userid) ==
    \/ userid = <<>>
    \/ /\ IsInt(userid)
       /\ ParseInt(userid) \in DOMAIN auth_user
       /\ auth_user[ParseInt(userid)].is_active

\* a scoping that forgets the owner: every row of an active account
get_queryset_unscoped(table, userid) ==
    IF userid = <<>> THEN BagOf({})
    ELSE IF ~IsInt(userid) THEN BagOf({})
    ELSE BagOf({i \in DOMAIN table : auth_user[table[i].user].is_active})

\* ExpenseViewSet.get_queryset over table rows `table`
get_queryset(table, userid) ==
    IF userid = <<>> THEN BagOf({})
    ELSE IF ~IsInt(userid) THEN BagOf({})
    ELSE BagOf({i \in DOMAIN table :
                    /\ table[i].user = ParseInt(userid)
                    /\ auth_user[table[i].user].is_active})

-----------------------------------------------------------------------------
(* The filter engine: ExpenseFilter and the viewset's filter backends *)

\* the lookup date__gte=value: the rows dated value or later
date__gte(table, q, value) ==
    Restrict(q, {i \in DOMAIN q : DateLeq(value, table[i].date)})

\* an upper date bound that leaves the bound itself out
date__lt(table, q, value) ==
    Restrict(q, {i \in DOMAIN q : DateLess(table[i].date, value)})

\* the lookup date__lte=value: the rows dated value or earlier
date__lte(table, q, value) ==
    Restrict(q, {i \in DOMAIN q : DateLeq(table[i].date, value)})

\* the form validation of ExpenseFilter: every supplied constraint parses
FilterValid(query) ==
    /\ "date_from" \in DOMAIN query => IsDate(query.date_from)
    /\ "date_to" \in DOMAIN query => IsDate(query.date_to)
    /\ "amount_min" \in DOMAIN query => IsInt(query.amount_min)
    /\ "amount_max" \in DOMAIN query => IsInt(query.amount_max)
    /\ "category" \in DOMAIN query => IsInt(query.category)
    /\ "transaction_type" \in DOMAIN query =>
           query.transaction_type \in TRANSACTION_TYPE_CHOICES

\* ExpenseFilter.filter_by_tags, before .distinct(): the join of the rows of q
\* with expenses_expense_tags, one row per (expense, listed tag) pair
filter_by_tags_join(table, q, value) ==
    LET tag_list == Split(value, ",")
        ids == {ParseInt(tag_list[k]) : k \in 1..Len(tag_list)}
        hit == {i \in DOMAIN q : table[i].tags \cap ids # {}}
    IN  [i \in hit |-> q[i] * Cardinality(table[i].tags \cap ids)]

\* QuerySet.distinct(): each row once
distinct(q) == [i \in DOMAIN q |-> 1]

\* the join without .distinct(): a row once per listed tag it holds
filter_by_tags_repeating(table, q, value) == filter_by_tags_join(table, q, value)

\* ExpenseFilter.filter_by_tags
filter_by_tags(table, q, value) == distinct(filter_by_tags_join(table, q, value))

\* the ORM's int() of every listed tag id succeeds
TagsParse(value) ==
    LET tag_list == Split(value, ",")
    IN  \A k \in 1..Len(tag_list) : IsInt(tag_list[k])

\* a search over the whole table instead of the queryset handed in
filter_by_search_unscoped(table, q, value) ==
    BagOf({i \in DOMAIN table :
              \/ IContains(table[i].description, value)
              \/ IContains(table[i].location, value)
              \/ IContains(table[i].payment_method, value)})

\* ExpenseFilter.filter_by_search (the SearchFilter backend applies the same
\* test to a one-word search term)
filter_by_search(table, q, value) ==
    Restrict(q, {i \in DOMAIN q :
                    \/ IContains(table[i].description, value)
                    \/ IContains(table[i].location, value)
                    \/ IContains(table[i].payment_method, value)})

\* the fields of ExpenseFilter, each applied when its parameter is supplied

date_from(table, q, query) ==
    IF "date_from" \in DOMAIN query THEN date__gte(table, q, query.date_from) ELSE q

date_to(table, q, query) ==
    IF "date_to" \in DOMAIN query THEN date__lte(table, q, query.date_to) ELSE q

amount_min(table, q, query) ==
    IF "amount_min" \in DOMAIN query
    THEN Restrict(q, {i \in DOMAIN q : table[i].amount >= 100 * ParseInt(query.amount_min)})
    ELSE q

amount_max(table, q, query) ==
    IF "amount_max" \in DOMAIN query
    THEN Restrict(q, {i \in DOMAIN q : table[i].amount <= 100 * ParseInt(query.amount_max)})
    ELSE q

category(table, q, query) ==
    IF "category" \in DOMAIN query
    THEN Restrict(q, {i \in DOMAIN q : table[i].category = ParseInt(query.category)})
    ELSE q

tags(table, q, query) ==
    IF "tags" \in DOMAIN query THEN filter_by_tags(table, q, query.tags) ELSE q

transaction_type(table, q, query) ==
    IF "transaction_type" \in DOMAIN query
    THEN Restrict(q, {i \in DOMAIN q : table[i].transaction_type = query.transaction_type})
    ELSE q

search(table, q, query) ==
    IF "search" \in DOMAIN query THEN filter_by_search(table, q, query.search) ELSE q

\* ExpenseFilter.qs: every supplied constraint applied in turn (logical AND)
ExpenseFilter(table, q, query) ==
    search(table,
      transaction_type(table,
        tags(table,
          category(table,
            amount_max(table,
              amount_min(table,
                date_to(table,
                  date_from(table, q, query),
                  query), query), query), query), query), query), query)

\* the outcome of GenericAPIView.filter_queryset: the HTTP status it forces
\* (200 when it returns a queryset)
FilterStatus(query) ==
    IF ~FilterValid(query) THEN 400
    ELSE IF "tags" \in DOMAIN query /\ ~TagsParse(query.tags) THEN 500
    ELSE 200

\* GenericAPIView.filter_queryset
filter_queryset(table, q, query) == ExpenseFilter(table, q, query)

\* row i sorts before row j under ordering = ['-date', '-created_at']
\* (created_at grows with the primary key)
Before(table, i, j) ==
    \/ ~DateLeq(table[i].date, table[j].date)
    \/ table[i].date = table[j].date /\ i > j

RECURSIVE Rows(_, _)
\* the rows of bag q as the ordered sequence of their keys
Rows(table, q) ==
    IF DOMAIN q = {} THEN <<>>
    ELSE LET i == CHOOSE k \in DOMAIN q :
                      \A j \in DOMAIN q \ {k} : Before(table, k, j)
         IN  [n \in 1..q[i] |-> i] \o Rows(table, [j \in DOMAIN q \ {i} |-> q[j]])

-----------------------------------------------------------------------------
(* The serializers.  request.data is a function from the keys present in the
   body to their values. *)

\* the amount field without the minimum of the model field
AmountFieldNoMinimum(mills) ==
    /\ mills % 10 = 0
    /\ mills \div 1000 < 100000000

\* DecimalField(max_digits=10, decimal_places=2) with the model field's
\* MinValueValidator(0.01), on an amount written in thousandths
AmountFieldValid(mills) ==
    /\ mills % 10 = 0
    /\ mills \div 1000 < 100000000
    /\ mills >= 10

\* the field-level validation both serializers share; `required` is the set
\* of keys that must be present, `table` the rows related_expense may name
FieldsValid(table, data, required) ==
    /\ required \subseteq DOMAIN data
    /\ "amount" \in DOMAIN data => AmountFieldValid(data.amount)
    /\ "transaction_type" \in DOMAIN data =>
           data.transaction_type \in TRANSACTION_TYPE_CHOICES
    /\ "description" \in DOMAIN data => data.description # <<>>
    /\ "date" \in DOMAIN data => IsDate(data.date)
    /\ "related_expense" \in DOMAIN data =>
           data.related_expense = NULL \/ data.related_expense \in DOMAIN table

\* ExpenseCreateSerializer.validate_amount
validate_amount(value) == value > 0

\* ExpenseCreateSerializer.validate
create_validate(data) ==
    /\ data.category_id # 0
    /\ data.category_id \in DOMAIN ExpenseCategory
    /\ "transaction_type" \in DOMAIN data =>
           ExpenseCategory[data.category_id].transaction_type = data.transaction_type

\* ExpenseCreateSerializer.is_valid
CreateSerializerValid(table, data) ==
    /\ FieldsValid(table, data, {"amount", "category_id", "description", "date"})
    /\ validate_amount(data.amount)
    /\ create_validate(data)

\* the value of key k in the body, or the field's default d
Get(data, k, d) == IF k \in DOMAIN data THEN data[k] ELSE d

\* the tags with a listed id, whoever owns them
TagsOfAnyUser(tag_ids, user) ==
    {t \in DOMAIN ExpenseTag : \E k \in 1..Len(tag_ids) : tag_ids[k] = t}

\* ExpenseTag.objects.filter(id__in=tag_ids, user=user)
TagsOf(tag_ids, user) ==
    {t \in DOMAIN ExpenseTag :
        /\ \E k \in 1..Len(tag_ids) : tag_ids[k] = t
        /\ ExpenseTag[t].user = user}

\* ExpenseCreateSerializer.create, with the user perform_create passes to save():
\* the row inserted
create(data, user) ==
    [amount |-> data.amount \div 10,
     category |-> data.category_id,
     date |-> data.date,
     description |-> data.description,
     location |-> Get(data, "location", <<>>),
     payment_method |-> Get(data, "payment_method", <<>>),
     related_expense |-> Get(data, "related_expense", NULL),
     tags |-> IF Get(data, "tag_ids", <<>>) # <<>>
              THEN TagsOf(data.tag_ids, user)
              ELSE {},
     transaction_type |-> Get(data, "transaction_type", "expense"),
     user |-> user]

\* ExpenseSerializer.validate
update_validate(data) ==
    ("category_id" \in DOMAIN data /\ data.category_id # 0) =>
        /\ data.category_id \in DOMAIN ExpenseCategory
        /\ "transaction_type" \in DOMAIN data =>
               ExpenseCategory[data.category_id].transaction_type = data.transaction_type

\* ExpenseSerializer.is_valid; a PUT requires the fields without a default
UpdateSerializerValid(table, data, partial) ==
    /\ FieldsValid(table, data,
                   IF partial THEN {} ELSE {"amount", "description", "date"})
    /\ update_validate(data)

\* an update that takes the owner from the body
update_with_owner(instance, data, partial) ==
    [amount |-> IF "amount" \in DOMAIN data
                THEN data.amount \div 10 ELSE instance.amount,
     category |-> IF Get(data, "category_id", NULL) # NULL
                  THEN data.category_id ELSE instance.category,
     date |-> Get(data, "date", instance.date),
     description |-> Get(data, "description", instance.description),
     location |-> Get(data, "location", instance.location),
     payment_method |-> Get(data, "payment_method", instance.payment_method),
     related_expense |-> Get(data, "related_expense", instance.related_expense),
     tags |-> IF "tag_ids" \in DOMAIN data \/ ~partial
              THEN TagsOf(Get(data, "tag_ids", <<>>), instance.user)
              ELSE instance.tags,
     transaction_type |-> Get(data, "transaction_type", instance.transaction_type),
     user |-> Get(data, "user", instance.user)]

\* ExpenseSerializer.update: the row after the update.  tag_ids defaults to
\* the empty list on a PUT and stays absent on a PATCH.
update(instance, data, partial) ==
    LET category_id == Get(data, "category_id", NULL)
        has_tags == "tag_ids" \in DOMAIN data \/ ~partial
    IN  [amount |-> IF "amount" \in DOMAIN data
                    THEN data.amount \div 10 ELSE instance.amount,
         category |-> IF category_id # NULL THEN category_id ELSE instance.category,
         date |-> Get(data, "date", instance.date),
         description |-> Get(data, "description", instance.description),
         location |-> Get(data, "location", instance.location),
         payment_method |-> Get(data, "payment_method", instance.payment_method),
         related_expense |-> Get(data, "related_expense", instance.related_expense),
         tags |-> IF has_tags
                  THEN TagsOf(Get(data, "tag_ids", <<>>), instance.user)
                  ELSE instance.tags,
         transaction_type |-> Get(data, "transaction_type", instance.transaction_type),
         user |-> instance.user]

-----------------------------------------------------------------------------
(* The views.  A request is [action, userid, pk, query, data]; a handler
   maps the table and a request to [status, data, table]: the HTTP status,
   the rows the body shows (primary keys, in order) and the table left. *)

\* a rest_framework Response of a handler that leaves `table` behind
Response(status, data, table) == [data |-> data, status |-> status, table |-> table]

\* StandardResultsSetPagination.page_size
page_size == 20

\* Expense.save
save(row) ==
    IF row.category # NULL /\ row.transaction_type = ""
    THEN [row EXCEPT !.transaction_type = ExpenseCategory[row.category].transaction_type]
    ELSE row

\* a lookup by primary key alone, whoever owns the row
get_object_unscoped(table, r) ==
    IF r.pk \in DOMAIN table THEN r.pk ELSE NULL

\* GenericAPIView.get_object: the primary key found, or NULL for Http404
get_object(table, r) ==
    LET q == filter_queryset(table, get_queryset(table, r.userid), r.query)
    IN  IF r.pk \in DOMAIN q THEN r.pk ELSE NULL

\* ListModelMixin.list: the first page of the filtered, ordered queryset
list(table, r) ==
    IF FilterStatus(r.query) # 200 THEN Response(FilterStatus(r.query), <<>>, table)
    ELSE LET q == filter_queryset(table, get_queryset(table, r.userid), r.query)
             rows == Rows(table, q)
         IN  Response(200,
                      SubSeq(rows, 1, IF Len(rows) < page_size THEN Len(rows) ELSE page_size),
                      table)

\* RetrieveModelMixin.retrieve
retrieve(table, r) ==
    IF FilterStatus(r.query) # 200 THEN Response(FilterStatus(r.query), <<>>, table)
    ELSE IF get_object(table, r) = NULL THEN Response(404, <<>>, table)
    ELSE Response(200, <<r.pk>>, table)

\* ExpenseViewSet.perform_create and CreateModelMixin.create; `pk` is the
\* key the insert gets.  PermissionDenied is not imported by the module, so
\* raising it is a NameError, answered 500.
perform_create(table, r, pk) ==
    IF ~CreateSerializerValid(table, r.data) THEN Response(400, <<>>, table)
    ELSE IF r.userid = <<>> THEN Response(500, <<>>, table)
    ELSE IF ~(/\ IsInt(r.userid)
              /\ ParseInt(r.userid) \in DOMAIN auth_user
              /\ auth_user[ParseInt(r.userid)].is_active)
         THEN Response(500, <<>>, table)
    ELSE Response(201, <<pk>>,
                  [i \in DOMAIN table \cup {pk} |->
                      IF i = pk THEN save(create(r.data, ParseInt(r.userid)))
                      ELSE table[i]])

\* an update that runs the serializer's validate() after the row is saved
perform_update_saving_first(table, r, partial) ==
    IF FilterStatus(r.query) # 200 THEN Response(FilterStatus(r.query), <<>>, table)
    ELSE IF get_object(table, r) = NULL THEN Response(404, <<>>, table)
    ELSE IF ~FieldsValid(table, r.data,
                         IF partial THEN {} ELSE {"amount", "description", "date"})
    THEN Response(400, <<>>, table)
    ELSE Response(IF update_validate(r.data) THEN 200 ELSE 400, <<r.pk>>,
                  [table EXCEPT ![r.pk] = save(update(table[r.pk], r.data, partial))])

\* UpdateModelMixin.update (PUT) and partial_update (PATCH)
perform_update(table, r, partial) ==
    IF FilterStatus(r.query) # 200 THEN Response(FilterStatus(r.query), <<>>, table)
    ELSE IF get_object(table, r) = NULL THEN Response(404, <<>>, table)
    ELSE IF ~UpdateSerializerValid(table, r.data, partial) THEN Response(400, <<>>, table)
    ELSE Response(200, <<r.pk>>,
                  [table EXCEPT ![r.pk] = save(update(table[r.pk], r.data, partial))])

\* DestroyModelMixin.destroy; related_expense is on_delete=SET_NULL
destroy(table, r) ==
    IF FilterStatus(r.query) # 200 THEN Response(FilterStatus(r.query), <<>>, table)
    ELSE IF get_object(table, r) = NULL THEN Response(404, <<>>, table)
    ELSE Response(204, <<>>,
                  [i \in DOMAIN table \ {r.pk} |->
                      IF table[i].related_expense = r.pk
                      THEN [table[i] EXCEPT !.related_expense = NULL]
                      ELSE table[i]])

\* ExpenseTag.objects.filter(id__in=tag_ids, user_id=user_id, user__is_active=True)
ActiveTagsOf(tag_ids, user_id) ==
    {t \in TagsOf(tag_ids, user_id) : auth_user[ExpenseTag[t].user].is_active}

\* ExpenseViewSet.add_tags
add_tags(table, r) ==
    IF FilterStatus(r.query) # 200 THEN Response(FilterStatus(r.query), <<>>, table)
    ELSE IF get_object(table, r) = NULL THEN Response(404, <<>>, table)
    ELSE IF Get(r.data, "tag_ids", <<>>) = <<>> THEN Response(400, <<>>, table)
    ELSE IF r.userid = <<>> THEN Response(400, <<>>, table)
    ELSE IF ~IsInt(r.userid) THEN Response(400, <<>>, table)
    ELSE Response(200, <<r.pk>>,
                  [table EXCEPT ![r.pk].tags =
                      @ \cup ActiveTagsOf(r.data.tag_ids, ParseInt(r.userid))])

\* ExpenseViewSet.remove_tags
remove_tags(table, r) ==
    IF FilterStatus(r.query) # 200 THEN Response(FilterStatus(r.query), <<>>, table)
    ELSE IF get_object(table, r) = NULL THEN Response(404, <<>>, table)
    ELSE IF Get(r.data, "tag_ids", <<>>) = <<>> THEN Response(400, <<>>, table)
    ELSE IF r.userid = <<>> THEN Response(400, <<>>, table)
    ELSE IF ~IsInt(r.userid) THEN Response(400, <<>>, table)
    ELSE Response(200, <<r.pk>>,
                  [table EXCEPT ![r.pk].tags =
                      @ \ ActiveTagsOf(r.data.tag_ids, ParseInt(r.userid))])

-----------------------------------------------------------------------------
(* The aggregation engine *)

\* the request's userid names an active account (the lookup summary and
\* monthly_report make before they aggregate)
UserResolves(userid) ==
    /\ userid # <<>>
    /\ IsInt(userid)
    /\ ParseInt(userid) \in DOMAIN auth_user
    /\ auth_user[ParseInt(userid)].is_active

\* Sum('amount') over the rows of bag q with a key in S; NULL over no rows
Sum(table, q, S) ==
    IF S \cap DOMAIN q = {} THEN NULL
    ELSE SumOver([i \in S \cap DOMAIN q |-> q[i] * table[i].amount], S \cap DOMAIN q)

\* Count('id') over the rows of bag q with a key in S
Count(q, S) == SumOver([i \in S \cap DOMAIN q |-> q[i]], S \cap DOMAIN q)

\* Python's `x or 0`
OrZero(x) == IF x = NULL THEN 0 ELSE x

\* the keys of the rows of q of one transaction type
OfType(table, q, kind) == {i \in DOMAIN q : table[i].transaction_type = kind}

\* the keys of the rows of q of one category
OfCategory(table, q, c) == {i \in DOMAIN q : table[i].category = c}

RECURSIVE OrderByTotalDesc(_, _, _)
\* order_by('-total') on the groups: larger totals first.  SQL leaves the
\* order of equal totals to the database; `rank` is the order it picks.
OrderByTotalDesc(groups, total, rank) ==
    IF groups = {} THEN <<>>
    ELSE LET g == CHOOSE x \in groups :
                      \A y \in groups \ {x} :
                          \/ total[x] > total[y]
                          \/ total[x] = total[y] /\ rank[x] < rank[y]
         IN  <<g>> \o OrderByTotalDesc(groups \ {g}, total, rank)

RECURSIVE OrderByDateDesc(_)
\* the dates latest first
OrderByDateDesc(dates) ==
    IF dates = {} THEN <<>>
    ELSE LET d == CHOOSE x \in dates : \A y \in dates : DateLeq(y, x)
         IN  <<d>> \o OrderByDateDesc(dates \ {d})

RECURSIVE OrderByDate(_)
\* order_by('date') on a set of dates
OrderByDate(dates) ==
    IF dates = {} THEN <<>>
    ELSE LET d == CHOOSE x \in dates : \A y \in dates : DateLeq(x, y)
         IN  <<d>> \o OrderByDate(dates \ {d})

\* DecimalField(max_digits=n, decimal_places=2).to_representation raises
\* when the value (in cents) needs more than n digits: |cents| >= 10^n
QuantizeFails(cents, max_digits) ==
    (IF cents < 0 THEN -cents ELSE cents) \div 100000 >= 10 ^ (max_digits - 5)

\* the category_breakdown of ExpenseViewSet.summary: (name, total) in the
\* order the dict is filled
category_breakdown(table, q, rank) ==
    LET exp == Restrict(q, OfType(table, q, "expense"))
        groups == {table[i].category : i \in DOMAIN exp}
        total == [c \in groups |-> Sum(table, exp, OfCategory(table, exp, c))]
        ordered == OrderByTotalDesc(groups, total, rank)
    IN  [k \in 1..Len(ordered) |->
            [name |-> ExpenseCategory[ordered[k]].name, total |-> total[ordered[k]]]]

\* a balance that leaves the credits out
net_balance_without_credit(income_total, credit_total, expense_total, debt_total) ==
    income_total - (expense_total + debt_total)

\* Expense.balance_effect, in cents
balance_effect(row) ==
    IF row.transaction_type \in {"income", "credit"} THEN row.amount
    ELSE IF row.transaction_type \in {"expense", "debt"} THEN 0 - row.amount
    ELSE IF row.transaction_type = "repayment" THEN row.amount
    ELSE 0

\* the net balance of ExpenseViewSet.summary
net_balance(income_total, credit_total, expense_total, debt_total) ==
    (income_total + credit_total) - (expense_total + debt_total)

\* queryset.aggregate(...) of ExpenseViewSet.summary
aggregate(table, queryset) ==
    [total_credit   |-> Sum(table, queryset, OfType(table, queryset, "credit")),
     total_debt     |-> Sum(table, queryset, OfType(table, queryset, "debt")),
     total_expenses |-> Sum(table, queryset, OfType(table, queryset, "expense")),
     total_income   |-> Sum(table, queryset, OfType(table, queryset, "income"))]

\* the summary_data dict of ExpenseViewSet.summary
summary_data(table, queryset, totals, rank) ==
    [category_breakdown |-> category_breakdown(table, queryset, rank),
     net_balance |-> net_balance(OrZero(totals.total_income), OrZero(totals.total_credit),
                                 OrZero(totals.total_expenses), OrZero(totals.total_debt)),
     total_credit |-> OrZero(totals.total_credit),
     total_debt |-> OrZero(totals.total_debt),
     total_expenses |-> OrZero(totals.total_expenses),
     total_income |-> OrZero(totals.total_income),
     transaction_count |-> Count(queryset, DOMAIN queryset)]

\* ExpenseSummarySerializer(summary_data).data: a value with too many digits
\* for its DecimalField raises, answered 500
ExpenseSummarySerializer(table, data) ==
    IF \/ \E f \in {"total_expenses", "total_income", "total_debt",
                     "total_credit", "net_balance"} : QuantizeFails(data[f], 12)
       \/ \E k \in 1..Len(data.category_breakdown) :
              QuantizeFails(data.category_breakdown[k].total, 10)
    THEN Response(500, <<>>, table)
    ELSE Response(200, data, table)

\* the body of ExpenseViewSet.summary once the queryset is narrowed to the dates
summarise(table, queryset, rank) ==
    ExpenseSummarySerializer(table,
        summary_data(table, queryset, aggregate(table, queryset), rank))

\* ExpenseViewSet.summary
summary(table, r, rank) ==
    IF ~UserResolves(r.userid) THEN Response(400, <<>>, table)
    ELSE IF \/ "date_from" \in DOMAIN r.query /\ ~IsDate(r.query.date_from)
            \/ "date_to" \in DOMAIN r.query /\ ~IsDate(r.query.date_to)
         THEN Response(500, <<>>, table)
    ELSE summarise(table,
                   date_to(table,
                           date_from(table, get_queryset(table, r.userid), r.query),
                           r.query),
                   rank)

\* timezone.now(), as a date
Today == <<2024, 1, 20>>

\* ExpenseViewSet.monthly_report
monthly_report(table, r, rank) ==
    IF ~UserResolves(r.userid) THEN Response(400, <<>>, table)
    ELSE IF \/ "year" \in DOMAIN r.query /\ ~IsInt(r.query.year)
            \/ "month" \in DOMAIN r.query /\ ~IsInt(r.query.month)
         THEN Response(500, <<>>, table)
    ELSE
    LET year == IF "year" \in DOMAIN r.query THEN ParseInt(r.query.year) ELSE Today[1]
        month == IF "month" \in DOMAIN r.query THEN ParseInt(r.query.month) ELSE Today[2]
        q0 == get_queryset(table, r.userid)
        monthly_expenses ==
            Restrict(q0, {i \in DOMAIN q0 :
                             table[i].date[1] = year /\ table[i].date[2] = month})
        dates == OrderByDate({table[i].date : i \in DOMAIN monthly_expenses})
        OnDate(d) == {i \in DOMAIN monthly_expenses : table[i].date = d}
        daily_totals ==
            [k \in 1..Len(dates) |->
                [count |-> Count(monthly_expenses, OnDate(dates[k])),
                 date |-> dates[k],
                 total |-> Sum(table, monthly_expenses, OnDate(dates[k]))]]
        groups == {table[i].category : i \in DOMAIN monthly_expenses}
        total == [c \in groups |->
                     Sum(table, monthly_expenses, OfCategory(table, monthly_expenses, c))]
        ordered == OrderByTotalDesc(groups, total, rank)
        category_totals ==
            [k \in 1..Len(ordered) |->
                [category__color |-> ExpenseCategory[ordered[k]].color,
                 category__name |-> ExpenseCategory[ordered[k]].name,
                 count |-> Count(monthly_expenses,
                                 OfCategory(table, monthly_expenses, ordered[k])),
                 total |-> total[ordered[k]]]]
    IN  IF year < 1 \/ year > 9999 THEN Response(500, <<>>, table)
        ELSE Response(200,
                 [category_totals |-> category_totals,
                  daily_totals |-> daily_totals,
                  month |-> month,
                  total_amount |-> OrZero(Sum(table, monthly_expenses, DOMAIN monthly_expenses)),
                  total_count |-> Count(monthly_expenses, DOMAIN monthly_expenses),
                  year |-> year],
                 table)

-----------------------------------------------------------------------------
(* Requests *)

\* a request: the viewset action routed to, the userid query parameter, the
\* primary key in the URL (NULL on a collection route), the other query
\* parameters and the body
Request(action, userid, pk, query, data) ==
    [action |-> action, data |-> data, pk |-> pk, query |-> query, userid |-> userid]

\* no query parameter besides userid; an empty body
Empty == <<>>

\* the letters of the tag names in the order of the collation
Letters == <<"h", "t", "w">>

\* a <= b for one-letter names
NameLeq(a, b) ==
    (CHOOSE i \in 1..Len(Letters) : Letters[i] = a)
        <= (CHOOSE j \in 1..Len(Letters) : Letters[j] = b)

\* the tags of every account when the request names none
tag_get_queryset_all(userid) ==
    IF userid = <<>> THEN DOMAIN ExpenseTag
    ELSE IF ~IsInt(userid) THEN {}
    ELSE {t \in DOMAIN ExpenseTag :
            /\ ExpenseTag[t].user = ParseInt(userid)
            /\ auth_user[ExpenseTag[t].user].is_active}

\* ExpenseTagViewSet.get_queryset: the keys of the tags of the account
tag_get_queryset(userid) ==
    IF userid = <<>> THEN {}
    ELSE IF ~IsInt(userid) THEN {}
    ELSE {t \in DOMAIN ExpenseTag :
            /\ ExpenseTag[t].user = ParseInt(userid)
            /\ auth_user[ExpenseTag[t].user].is_active}

RECURSIVE OrderByName(_)
\* ordering = ['name'] on a set of tags
OrderByName(ts) ==
    IF ts = {} THEN <<>>
    ELSE LET t == CHOOSE x \in ts :
                      \A y \in ts : NameLeq(ExpenseTag[x].name, ExpenseTag[y].name)
         IN  <<t>> \o OrderByName(ts \ {t})

\* the first page of a sequence of rows
FirstPage(rows) ==
    SubSeq(rows, 1, IF Len(rows) < page_size THEN Len(rows) ELSE page_size)

\* ExpenseTagViewSet.list: the keys of the tags, by name
list_tags(table, r) ==
    Response(200, FirstPage(OrderByName(tag_get_queryset(r.userid))), table)

\* users.views.login_view: the account is the one the middleware looked up
\* from ?userid=; the body of the request is not read
login_view(table, r) ==
    IF r.userid = <<>>
    THEN Response(400, [error |-> "userid parameter is required"], table)
    ELSE IF ~IsInt(r.userid)
    THEN Response(400, [error |-> "Invalid userid parameter"], table)
    ELSE Response(200,
                  [detail |-> "Login successful.",
                   user |-> [id |-> ParseInt(r.userid),
                             username |-> auth_user[ParseInt(r.userid)].username]],
                  table)

\* the middleware, then the view the router dispatches to; `pk` is the key
\* an insert would get and `rank` the order the database gives equal totals
Dispatch(table, pk, r, rank) ==
    IF ~MiddlewarePasses(r.userid) THEN Response(400, <<>>, table)
    ELSE CASE r.action = "list" -> list(table, r)
           [] r.action = "retrieve" -> retrieve(table, r)
           [] r.action = "create" -> perform_create(table, r, pk)
           [] r.action = "update" -> perform_update(table, r, FALSE)
           [] r.action = "partial_update" -> perform_update(table, r, TRUE)
           [] r.action = "destroy" -> destroy(table, r)
           [] r.action = "add_tags" -> add_tags(table, r)
           [] r.action = "remove_tags" -> remove_tags(table, r)
           [] r.action = "summary" -> summary(table, r, rank)
           [] r.action = "monthly_report" -> monthly_report(table, r, rank)
           [] r.action = "tag_list" -> list_tags(table, r)
           [] r.action = "login" -> login_view(table, r)

\* the response recorded, the table left as the view leaves it, the key
\* sequence advanced by an insert
Reply(r, out) ==
    /\ resp' = [data |-> out.data, status |-> out.status]
    /\ expenses' = out.table
    /\ next_id' = IF r.action = "create" /\ out.status = 201
                  THEN next_id + 1 ELSE next_id
    /\ UNCHANGED <<tools, executions, db, categories, inflight>>

\* one request arrives and is handled
Handle(action, userid, pk, query, data, rank) ==
    LET r == Request(action, userid, pk, query, data)
    IN  /\ req' = r
        /\ Reply(r, Dispatch(expenses, next_id, r, rank))

\* the orders a database may give the categories
Ranks == Permutations(DOMAIN ExpenseCategory)

\* the order by primary key
ById == [c \in DOMAIN ExpenseCategory |-> c]

-----------------------------------------------------------------------------
(* Inputs of the record-store specification *)

Tea == <<"t", "e", "a">>
D1 == <<2024, 1, 5>>
D2 == <<2024, 2, 3>>

\* the userid parameter: absent, two active accounts, an inactive one, not a number
Userids == {<<>>, <<"1">>, <<"2">>, <<"3">>, <<"x">>}

\* the userid parameter of the requests that name a row
DetailUserids == {<<>>, <<"1">>, <<"2">>}

\* the keys a URL may name: every key handed out so far and one no row has
Pks == 1..next_id

\* a body with tags, a body that links the record with key 1, a body with
\* an amount of zero
CreateBodies ==
    {[amount |-> 10000, category_id |-> 1, date |-> D1, description |-> Tea,
      tag_ids |-> <<1, 3>>, transaction_type |-> "expense"],
     [amount |-> 10000, category_id |-> 1, date |-> D1, description |-> Tea,
      related_expense |-> 1, transaction_type |-> "expense"],
     [amount |-> 0, category_id |-> 1, date |-> D1, description |-> Tea,
      transaction_type |-> "expense"]}

\* a PUT without tag_ids: the serializer's default empties the tag set
UpdateBodies ==
    {[amount |-> 20000, category_id |-> 2, date |-> D2, description |-> Tea],
     [amount |-> 0, category_id |-> 2, date |-> D2, description |-> Tea]}

\* a PATCH that names another owner, and one with an amount of -5.00
PatchBodies ==
    {[amount |-> 20000, category_id |-> 2, date |-> D2, user |-> 2],
     [amount |-> -5000]}

TagBodies == {[tag_ids |-> <<1, 3>>], [tag_ids |-> <<>>], Empty}

-----------------------------------------------------------------------------
(* The record-store specification: requests against the expense routes *)

Init ==
    /\ expenses = <<>>
    /\ next_id = 1
    /\ req = Request("none", <<>>, NULL, Empty, Empty)
    /\ resp = [data |-> <<>>, status |-> 0]
    /\ tools = NoTools
    /\ executions = <<>>
    /\ db = "ok"
    /\ categories = Categories
    /\ inflight = <<>>

List ==
    \E u \in Userids : Handle("list", u, NULL, Empty, Empty, ById)

ListTags ==
    \E u \in Userids : Handle("tag_list", u, NULL, Empty, Empty, ById)

Retrieve ==
    \E u \in DetailUserids, pk \in Pks :
        Handle("retrieve", u, pk, Empty, Empty, ById)

Create ==
    /\ next_id <= MaxExpenses
    /\ \E u \in Userids, d \in CreateBodies :
           Handle("create", u, NULL, Empty, d, ById)

Update ==
    \E u \in DetailUserids, pk \in Pks, d \in UpdateBodies :
        Handle("update", u, pk, Empty, d, ById)

PartialUpdate ==
    \E u \in DetailUserids, pk \in Pks, d \in PatchBodies :
        Handle("partial_update", u, pk, Empty, d, ById)

Destroy ==
    \E u \in DetailUserids, pk \in Pks :
        Handle("destroy", u, pk, Empty, Empty, ById)

AddTags ==
    \E u \in DetailUserids, pk \in Pks, d \in TagBodies :
        Handle("add_tags", u, pk, Empty, d, ById)

RemoveTags ==
    \E u \in DetailUserids, pk \in Pks, d \in TagBodies :
        Handle("remove_tags", u, pk, Empty, d, ById)

Next ==
    \/ List
    \/ ListTags
    \/ Retrieve
    \/ Create
    \/ Update
    \/ PartialUpdate
    \/ Destroy
    \/ AddTags
    \/ RemoveTags

Spec == Init /\ [][Next]_vars

-----------------------------------------------------------------------------
(* Inputs of the report and filter specifications: tables the create and
   update handlers can leave behind *)

\* how many rows the tables of the report and filter specifications hold
MaxRows == 3

D3 == <<2024, 1, 9>>
Bus == <<"B", "u", "s">>

\* the row a POST by account u leaves, the kind taken from the category
Posted(u, amount, category_id, date, description, tag_ids) ==
    save(create([amount |-> amount, category_id |-> category_id, date |-> date,
                 description |-> description, tag_ids |-> tag_ids,
                 transaction_type |-> ExpenseCategory[category_id].transaction_type],
                u))

\* the row a PATCH of transaction_type alone leaves
Patched(row, kind) == save(update(row, [transaction_type |-> kind], TRUE))

\* rows of every kind, two expense categories with equal totals, two accounts
ReportRows ==
    {Posted(1, 100000, 1, D1, Tea, <<>>),
     Posted(1, 100000, 2, D1, Tea, <<>>),
     Posted(1, 50000, 2, D3, Tea, <<>>),
     Posted(1, 200000, 3, D2, Tea, <<>>),
     Patched(Posted(1, 30000, 1, D1, Tea, <<>>), "debt"),
     Patched(Posted(1, 40000, 3, D3, Tea, <<>>), "credit"),
     Patched(Posted(1, 10000, 1, D1, Tea, <<>>), "repayment"),
     Posted(2, 100000, 1, D1, Tea, <<>>),
     Posted(2, 70000, 3, D2, Tea, <<>>)}

\* the tables of at most MaxRows rows, keys handed out from 1
TablesOf(rows) == UNION {[1..n -> rows] : n \in 0..MaxRows}

ReportUserids == {<<>>, <<"1">>, <<"2">>}

\* date_from / date_to of a summary request
SummaryQueries ==
    {Empty, [date_from |-> D1], [date_to |-> D1], [date_from |-> D3, date_to |-> D2]}

Y2024 == <<"2", "0", "2", "4">>

\* year / month of a monthly_report request
MonthQueries ==
    {Empty,
     [month |-> <<"1">>, year |-> Y2024],
     [month |-> <<"2">>, year |-> Y2024],
     [month |-> <<"1", "3">>, year |-> Y2024]}

-----------------------------------------------------------------------------
(* The report specification: one summary or monthly_report request against
   a table.  The two handlers read the table and leave it as it is, so a
   behaviour is a table and one request. *)

\* no request has been handled yet
Idle == req.action = "none"

InitReport ==
    /\ expenses \in TablesOf(ReportRows)
    /\ next_id = Len(expenses) + 1
    /\ req = Request("none", <<>>, NULL, Empty, Empty)
    /\ resp = [data |-> <<>>, status |-> 0]
    /\ tools = NoTools
    /\ executions = <<>>
    /\ db = "ok"
    /\ categories = Categories
    /\ inflight = <<>>

Summary ==
    /\ Idle
    /\ \E u \in ReportUserids, query \in SummaryQueries, rank \in Ranks :
           Handle("summary", u, NULL, query, Empty, rank)

MonthlyReport ==
    /\ Idle
    /\ \E u \in ReportUserids, query \in MonthQueries, rank \in Ranks :
           Handle("monthly_report", u, NULL, query, Empty, rank)

NextReport ==
    \/ Summary
    \/ MonthlyReport

SpecReport == InitReport /\ [][NextReport]_vars

-----------------------------------------------------------------------------
(* The filter specification: one list request with filter constraints
   against a table *)

Bar == <<"b", "a", "r">>

\* the row a PATCH of location alone leaves
Relocated(row, location) == save(update(row, [location |-> location], TRUE))

\* rows with two, one and no tag, of two accounts
FilterRows ==
    {Posted(1, 10000, 1, D1, Tea, <<1, 2>>),
     Posted(1, 20000, 2, D2, Bus, <<1>>),
     Posted(1, 20000, 3, D3, Bus, <<>>),
     Relocated(Posted(1, 30000, 1, D3, Bus, <<2>>), Bar),
     Posted(2, 10000, 1, D1, Tea, <<3>>)}

\* one value for each of the eight constraints
FullQuery ==
    [amount_max |-> <<"2", "0">>, amount_min |-> <<"1", "0">>,
     category |-> <<"1">>, date_from |-> D1, date_to |-> D3,
     search |-> <<"T", "E">>, tags |-> <<"1", ",", "2">>,
     transaction_type |-> "expense"]

\* every combination of the constraints, and further single constraints
FilterQueries ==
    {[k \in S |-> FullQuery[k]] : S \in SUBSET DOMAIN FullQuery}
        \cup {[tags |-> <<"2">>], [tags |-> <<"3">>], [tags |-> <<"2", ",", "3">>],
               [search |-> Bar], [category |-> <<"3">>],
               [transaction_type |-> "income"]}

FilterUserids == {<<"1">>, <<"2">>}

InitFilter ==
    /\ expenses \in TablesOf(FilterRows)
    /\ next_id = Len(expenses) + 1
    /\ req = Request("none", <<>>, NULL, Empty, Empty)
    /\ resp = [data |-> <<>>, status |-> 0]
    /\ tools = NoTools
    /\ executions = <<>>
    /\ db = "ok"
    /\ categories = Categories
    /\ inflight = <<>>

FilteredList ==
    /\ Idle
    /\ \E u \in FilterUserids, query \in FilterQueries :
           Handle("list", u, NULL, query, Empty, ById)

\* a date that is none: month 13
NotADate == <<2024, 13, 1>>

\* text that is no number
NotANumber == <<"x">>

\* constraints with a value of the wrong form, one at a time
MalformedQueries ==
    {[transaction_type |-> "bogus"],
     [date_from |-> NotADate],
     [date_to |-> NotADate],
     [amount_min |-> NotANumber],
     [amount_max |-> NotANumber],
     [category |-> NotANumber],
     [tags |-> <<"1", ",", "x">>]}

MalformedList ==
    /\ Idle
    /\ \E u \in FilterUserids, query \in MalformedQueries :
           Handle("list", u, NULL, query, Empty, ById)

MalformedSummary ==
    /\ Idle
    /\ \E u \in FilterUserids, query \in MalformedQueries :
           Handle("summary", u, NULL, query, Empty, ById)

NextFilter ==
    \/ FilteredList
    \/ MalformedList
    \/ MalformedSummary

SpecFilter == InitFilter /\ [][NextFilter]_vars

-----------------------------------------------------------------------------
(* The write specification: one write request, with bodies of every kind,
   against a table of rows that earlier requests stored *)

\* rows of two accounts, an expense and an income category, own tags
WriteRows ==
    {Posted(1, 10000, 1, D1, Tea, <<1>>),
     Posted(2, 10000, 1, D1, Tea, <<3>>),
     Posted(1, 50000, 3, D2, Tea, <<>>)}

WriteUserids == {<<>>, <<"1">>, <<"2">>, <<"3">>}

\* bodies of a POST: complete, without a kind under an income category, with
\* a kind that is not the category's, with amounts of 0, -5.00 and 0.001,
\* with an unknown category
WriteCreateBodies ==
    {[amount |-> 10000, category_id |-> 1, date |-> D1, description |-> Tea,
      tag_ids |-> <<1, 3>>, transaction_type |-> "expense"],
     [amount |-> 10000, category_id |-> 3, date |-> D1, description |-> Tea],
     [amount |-> 10000, category_id |-> 1, date |-> D1, description |-> Tea,
      transaction_type |-> "income"],
     [amount |-> 0, category_id |-> 1, date |-> D1, description |-> Tea],
     [amount |-> -5000, category_id |-> 1, date |-> D1, description |-> Tea],
     [amount |-> 1, category_id |-> 1, date |-> D1, description |-> Tea],
     [amount |-> 10000, category_id |-> 9, date |-> D1, description |-> Tea]}

\* bodies of a PUT: with category and kind, with a kind and no category, with
\* an amount of 0, with another owner
WriteUpdateBodies ==
    {[amount |-> 20000, category_id |-> 2, date |-> D2, description |-> Tea,
      tag_ids |-> <<2, 3>>, transaction_type |-> "expense"],
     [amount |-> 20000, date |-> D2, description |-> Tea,
      transaction_type |-> "income"],
     [amount |-> 0, date |-> D2, description |-> Tea],
     [amount |-> 20000, date |-> D2, description |-> Tea, user |-> 2]}

\* bodies of a PATCH: a kind alone, a category alone, both at odds, amounts
\* of -5.00 and 0.001, tags of both accounts, another owner
WritePatchBodies ==
    {[transaction_type |-> "repayment"],
     [category_id |-> 3],
     [category_id |-> 3, transaction_type |-> "expense"],
     [amount |-> -5000],
     [amount |-> 1],
     [tag_ids |-> <<2, 3>>],
     [user |-> 2]}

InitWrite ==
    /\ expenses \in TablesOf(WriteRows)
    /\ next_id = Len(expenses) + 1
    /\ req = Request("none", <<>>, NULL, Empty, Empty)
    /\ resp = [data |-> <<>>, status |-> 0]
    /\ tools = NoTools
    /\ executions = <<>>
    /\ db = "ok"
    /\ categories = Categories
    /\ inflight = <<>>

WriteCreate ==
    /\ Idle
    /\ \E u \in WriteUserids, d \in WriteCreateBodies :
           Handle("create", u, NULL, Empty, d, ById)

WriteUpdate ==
    /\ Idle
    /\ \E u \in WriteUserids, pk \in Pks, d \in WriteUpdateBodies :
           Handle("update", u, pk, Empty, d, ById)

WritePartialUpdate ==
    /\ Idle
    /\ \E u \in WriteUserids, pk \in Pks, d \in WritePatchBodies :
           Handle("partial_update", u, pk, Empty, d, ById)

WriteDestroy ==
    /\ Idle
    /\ \E u \in WriteUserids, pk \in Pks :
           Handle("destroy", u, pk, Empty, Empty, ById)

WriteAddTags ==
    /\ Idle
    /\ \E u \in WriteUserids, pk \in Pks, d \in TagBodies :
           Handle("add_tags", u, pk, Empty, d, ById)

WriteRemoveTags ==
    /\ Idle
    /\ \E u \in WriteUserids, pk \in Pks, d \in TagBodies :
           Handle("remove_tags", u, pk, Empty, d, ById)

NextWrite ==
    \/ WriteCreate
    \/ WriteUpdate
    \/ WritePartialUpdate
    \/ WriteDestroy
    \/ WriteAddTags
    \/ WriteRemoveTags

SpecWrite == InitWrite /\ [][NextWrite]_vars

-----------------------------------------------------------------------------
(* Updates in flight.  UpdateModelMixin.update reads the instance           *)
(* (get_object), validates, and calls ExpenseSerializer.update, which       *)
(* writes the row with instance.save() and then the tag set with            *)
(* instance.tags.set(): two statements, with no transaction around them.    *)
(* Requests are served by several workers, so the statements of two         *)
(* requests interleave.                                                     *)

\* how many update requests are in flight at once
MaxUpdates == 2

\* the row an update writes and the tag set it writes, from the instance it
\* read: the state of the record if the update ran alone
WrittenBy(u) == save(update(u.instance, u.r.data, u.partial))

\* tag_ids reaches ExpenseSerializer.update: always on a PUT
HasTags(u) == "tag_ids" \in DOMAIN u.r.data \/ ~u.partial

\* get_object and is_valid of an update request on the table as it is now:
\* an error is answered at once, otherwise the request holds the instance it
\* read and goes on to its writes
update_begin(table, flight, r, partial) ==
    LET out == perform_update(table, r, partial)
    IN  IF ~MiddlewarePasses(r.userid)
        THEN [flight |-> flight, status |-> 400]
        ELSE IF out.status # 200 THEN [flight |-> flight, status |-> out.status]
        ELSE [flight |-> Append(flight, [instance |-> table[r.pk],
                                         partial |-> partial,
                                         pc |-> "save", r |-> r]),
              status |-> 0]

\* instance.save(): every column of the row from the instance in memory; the
\* tag set is another table and stays
update_save(table, u) ==
    [table EXCEPT ![u.r.pk] = [WrittenBy(u) EXCEPT !.tags = table[u.r.pk].tags]]

\* instance.tags.set(tags)
update_set_tags(table, u) ==
    [table EXCEPT ![u.r.pk].tags = WrittenBy(u).tags]

(* Inputs and actions of the concurrent specification *)

ConcurrentUserids == {<<>>, <<"1">>, <<"2">>}

\* bodies of a PUT
ConcurrentPuts ==
    {[amount |-> 20000, category_id |-> 2, date |-> D2, description |-> Tea,
      tag_ids |-> <<2>>],
     [amount |-> 30000, date |-> D1, description |-> Tea, tag_ids |-> <<1, 2>>],
     [amount |-> 0, date |-> D2, description |-> Tea]}

\* bodies of a PATCH
ConcurrentPatches ==
    {[amount |-> 40000, tag_ids |-> <<>>], [date |-> D2], [category_id |-> 9]}

\* two records, of one account or of two, and nothing in flight
InitConcurrent ==
    /\ expenses \in [1..2 -> WriteRows]
    /\ next_id = Len(expenses) + 1
    /\ req = Request("none", <<>>, NULL, Empty, Empty)
    /\ resp = [data |-> <<>>, status |-> 0]
    /\ tools = NoTools
    /\ executions = <<>>
    /\ db = "ok"
    /\ categories = Categories
    /\ inflight = <<>>

\* a PUT or PATCH arrives and is taken up to its first write
UpdateBegin ==
    /\ Len(inflight) < MaxUpdates
    /\ \E u \in ConcurrentUserids, pk \in Pks, partial \in BOOLEAN :
         \E d \in IF partial THEN ConcurrentPatches ELSE ConcurrentPuts :
           LET r == Request(IF partial THEN "partial_update" ELSE "update",
                            u, pk, Empty, d)
               out == update_begin(expenses, inflight, r, partial)
           IN  /\ inflight' = out.flight
               /\ IF out.status = 0
                  THEN UNCHANGED <<req, resp>>
                  ELSE /\ req' = r
                       /\ resp' = [data |-> <<>>, status |-> out.status]
    /\ UNCHANGED <<expenses, next_id, tools, executions, db, categories>>

\* the request is answered when its last write is done
Answered(w) ==
    /\ req' = inflight[w].r
    /\ resp' = [data |-> <<inflight[w].r.pk>>, status |-> 200]

\* one request in flight runs instance.save()
UpdateSave ==
    /\ \E w \in 1..Len(inflight) :
         /\ inflight[w].pc = "save"
         /\ expenses' = update_save(expenses, inflight[w])
         /\ IF HasTags(inflight[w])
            THEN /\ inflight' = [inflight EXCEPT ![w].pc = "tags"]
                 /\ UNCHANGED <<req, resp>>
            ELSE /\ inflight' = [inflight EXCEPT ![w].pc = "done"]
                 /\ Answered(w)
    /\ UNCHANGED <<next_id, tools, executions, db, categories>>

\* one request in flight runs instance.tags.set()
UpdateSetTags ==
    /\ \E w \in 1..Len(inflight) :
         /\ inflight[w].pc = "tags"
         /\ expenses' = update_set_tags(expenses, inflight[w])
         /\ inflight' = [inflight EXCEPT ![w].pc = "done"]
         /\ Answered(w)
    /\ UNCHANGED <<next_id, tools, executions, db, categories>>

NextConcurrent ==
    \/ UpdateBegin
    \/ UpdateSave
    \/ UpdateSetTags

SpecConcurrent == InitConcurrent /\ [][NextConcurrent]_vars

-----------------------------------------------------------------------------
(* The login endpoint: POST /api/users/login/ *)

LoginUserids == {<<>>, <<"1">>, <<"2">>, <<"3">>, <<"x">>}

\* no credentials, credentials of no account, a wrong password, and the
\* credentials of accounts 1 and 3
LoginBodies ==
    {Empty,
     [password |-> "pw9", username |-> "dan"],
     [password |-> "pw2", username |-> "ann"],
     [password |-> "pw1", username |-> "ann"],
     [password |-> "pw3", username |-> "cat"]}

\* one login request, whatever the store holds
Login ==
    /\ Idle
    /\ \E u \in LoginUserids, d \in LoginBodies :
           Handle("login", u, NULL, Empty, d, ById)

NextLogin == Login

SpecLogin == InitWrite /\ [][NextLogin]_vars

-----------------------------------------------------------------------------
(* The category endpoints: ExpenseCategoryViewSet, a ModelViewSet without   *)
(* overrides of update or destroy, and ExpenseCategorySerializer.           *)

\* ExpenseCategory.TRANSACTION_TYPE_CHOICES
CATEGORY_TYPE_CHOICES == {"expense", "income", "credit", "debt"}

\* what a category request leaves behind: the response and the two tables
CategoryResponse(status, data, cats, table) ==
    [categories |-> cats, data |-> data, status |-> status, table |-> table]

\* ExpenseCategoryViewSet.get_queryset over objects.filter(is_active=True)
category_get_queryset(cats, query) ==
    {c \in DOMAIN cats :
        /\ cats[c].is_active
        /\ Get(query, "type", "") # "" => cats[c].transaction_type = query.type}

\* get_object: the key of the URL within the queryset, or NULL (a 404)
category_get_object(cats, r) ==
    IF r.pk \in category_get_queryset(cats, r.query) THEN r.pk ELSE NULL

\* ExpenseCategorySerializer.validate_name
validate_name(cats, instance, value) ==
    (\E c \in DOMAIN cats : cats[c].name = value) =>
        (instance # NULL /\ cats[instance].name = value)

\* ExpenseCategorySerializer.is_valid: name is required unless partial, the
\* kind is one of the choices, is_active is a boolean
CategorySerializerValid(cats, instance, data, partial) ==
    /\ (~partial) => "name" \in DOMAIN data
    /\ "name" \in DOMAIN data => validate_name(cats, instance, data.name)
    /\ "transaction_type" \in DOMAIN data =>
           data.transaction_type \in CATEGORY_TYPE_CHOICES
    /\ "is_active" \in DOMAIN data => data.is_active \in BOOLEAN

\* the kinds and the names in the order of the collation
CollatedKinds == <<"credit", "debt", "expense", "income">>

CollatedNames == <<"Food", "Fuel", "Rent", "Salary">>

\* the place of a text in a collated sequence
Place(seq, text) == CHOOSE i \in 1..Len(seq) : seq[i] = text

\* ListModelMixin.list in the viewset's ordering: kind, then name
category_list(cats, table, r) ==
    LET q == category_get_queryset(cats, r.query)
        Precedes(a, b) ==
            \/ Place(CollatedKinds, cats[a].transaction_type)
                   < Place(CollatedKinds, cats[b].transaction_type)
            \/ /\ cats[a].transaction_type = cats[b].transaction_type
               /\ Place(CollatedNames, cats[a].name)
                      < Place(CollatedNames, cats[b].name)
        rows == CHOOSE seq \in [1..Cardinality(q) -> q] :
                    \A i, j \in 1..Cardinality(q) : i < j => Precedes(seq[i], seq[j])
    IN  CategoryResponse(200, rows, cats, table)

\* CreateModelMixin.create; `pk` is the key the insert gets
category_create(cats, table, r, pk) ==
    IF ~CategorySerializerValid(cats, NULL, r.data, FALSE)
    THEN CategoryResponse(400, <<>>, cats, table)
    ELSE CategoryResponse(201, <<pk>>,
             [c \in DOMAIN cats \cup {pk} |->
                 IF c = pk
                 THEN [is_active |-> Get(r.data, "is_active", TRUE),
                       name |-> r.data.name,
                       transaction_type |->
                           Get(r.data, "transaction_type", "expense")]
                 ELSE cats[c]],
             table)

\* UpdateModelMixin.update and partial_update: the fields sent are written
category_update(cats, table, r, partial) ==
    IF category_get_object(cats, r) = NULL
    THEN CategoryResponse(404, <<>>, cats, table)
    ELSE IF ~CategorySerializerValid(cats, r.pk, r.data, partial)
    THEN CategoryResponse(400, <<>>, cats, table)
    ELSE CategoryResponse(200, <<r.pk>>,
             [cats EXCEPT ![r.pk] =
                 [is_active |-> Get(r.data, "is_active", cats[r.pk].is_active),
                  name |-> Get(r.data, "name", cats[r.pk].name),
                  transaction_type |->
                      Get(r.data, "transaction_type",
                          cats[r.pk].transaction_type)]],
             table)

\* the rows a DELETE of category pk takes along: Expense.category is
\* on_delete=CASCADE
CascadeOf(table, pk) == {i \in DOMAIN table : table[i].category = pk}

\* DestroyModelMixin.destroy: instance.delete() removes the row, the expenses
\* of the category go with it, and related_expense of the rows that pointed
\* to a removed expense is set NULL
category_destroy(cats, table, r) ==
    IF category_get_object(cats, r) = NULL
    THEN CategoryResponse(404, <<>>, cats, table)
    ELSE CategoryResponse(204, <<>>,
             [c \in DOMAIN cats \ {r.pk} |-> cats[c]],
             [i \in DOMAIN table \ CascadeOf(table, r.pk) |->
                 IF table[i].related_expense \in CascadeOf(table, r.pk)
                 THEN [table[i] EXCEPT !.related_expense = NULL]
                 ELSE table[i]])

\* the middleware, then the router of ExpenseCategoryViewSet
DispatchCategory(cats, table, r, pk) ==
    IF ~MiddlewarePasses(r.userid) THEN CategoryResponse(400, <<>>, cats, table)
    ELSE CASE r.action = "category_list" -> category_list(cats, table, r)
           [] r.action = "category_create" -> category_create(cats, table, r, pk)
           [] r.action = "category_update" -> category_update(cats, table, r, FALSE)
           [] r.action = "category_partial_update" ->
                  category_update(cats, table, r, TRUE)
           [] r.action = "category_destroy" -> category_destroy(cats, table, r)

\* the key the next insert gets, after the rows the table starts with
NextCategoryId == Cardinality(DOMAIN Categories) + 1

\* one category request arrives and is handled
HandleCategory(action, userid, pk, query, data) ==
    LET r == Request(action, userid, pk, query, data)
    IN  /\ req' = r
        /\ LET out == DispatchCategory(categories, expenses, r, NextCategoryId)
           IN  /\ resp' = [data |-> out.data, status |-> out.status]
               /\ categories' = out.categories
               /\ expenses' = out.table
        /\ UNCHANGED <<next_id, tools, executions, db, inflight>>

(* Inputs of the category specification *)

\* a store in which a category has been retired already
RetiredCategories == [Categories EXCEPT ![2].is_active = FALSE]

CategoryUserids == {<<>>, <<"1">>, <<"3">>}

CategoryPks == {1, 2, 3, 9}

CategoryQueries == {Empty, [type |-> "income"]}

\* a new name, a name in use, a kind that only a record can have
CategoryBodies ==
    {[name |-> "Fuel", transaction_type |-> "debt"],
     [name |-> "Fuel"],
     [name |-> "Rent", transaction_type |-> "expense"],
     [name |-> "Fuel", transaction_type |-> "repayment"],
     Empty}

\* retiring a category, and changing its kind
CategoryPatches ==
    {[is_active |-> FALSE], [transaction_type |-> "income"], [name |-> "Food"]}

InitCategory ==
    /\ expenses \in TablesOf(WriteRows)
    /\ next_id = Len(expenses) + 1
    /\ req = Request("none", <<>>, NULL, Empty, Empty)
    /\ resp = [data |-> <<>>, status |-> 0]
    /\ tools = NoTools
    /\ executions = <<>>
    /\ db = "ok"
    /\ categories \in {Categories, RetiredCategories}
    /\ inflight = <<>>

CategoryList ==
    /\ Idle
    /\ \E u \in CategoryUserids, q \in CategoryQueries :
           HandleCategory("category_list", u, NULL, q, Empty)

CategoryCreate ==
    /\ Idle
    /\ \E u \in CategoryUserids, d \in CategoryBodies :
           HandleCategory("category_create", u, NULL, Empty, d)

CategoryUpdate ==
    /\ Idle
    /\ \E u \in CategoryUserids, pk \in CategoryPks, d \in CategoryBodies :
           HandleCategory("category_update", u, pk, Empty, d)

CategoryPartialUpdate ==
    /\ Idle
    /\ \E u \in CategoryUserids, pk \in CategoryPks,
          d \in CategoryBodies \cup CategoryPatches :
           HandleCategory("category_partial_update", u, pk, Empty, d)

CategoryDestroy ==
    /\ Idle
    /\ \E u \in CategoryUserids, pk \in CategoryPks, q \in CategoryQueries :
           HandleCategory("category_destroy", u, pk, q, Empty)

NextCategory ==
    \/ CategoryList
    \/ CategoryCreate
    \/ CategoryUpdate
    \/ CategoryPartialUpdate
    \/ CategoryDestroy

SpecCategory == InitCategory /\ [][NextCategory]_vars

-----------------------------------------------------------------------------
(* The array-sum tool: ArraySumToolView of tools/views.py.

   A JSON value is a record with a kind.  A number is an integer: signs are
   in the alphabet of the inputs, fractions and exponents are not.  A text is
   a sequence of one-character strings, as for the query strings above. *)

\* how many execution rows are ever written
MaxExecutions == 2

Number(n) == [items |-> <<>>, kind |-> "number", num |-> n, text |-> <<>>]

String(t) == [items |-> <<>>, kind |-> "string", num |-> 0, text |-> t]

Array(items) == [items |-> items, kind |-> "list", num |-> 0, text |-> <<>>]

JsonNull == [items |-> <<>>, kind |-> "null", num |-> 0, text |-> <<>>]

\* no value: json.loads raised JSONDecodeError, or float() raised ValueError
Invalid == [items |-> <<>>, kind |-> "invalid", num |-> 0, text |-> <<>>]

RECURSIVE Strip(_)
\* s.strip(): s without the blanks at its ends
Strip(s) ==
    IF s # <<>> /\ s[1] = " " THEN Strip(Tail(s))
    ELSE IF s # <<>> /\ s[Len(s)] = " " THEN Strip(SubSeq(s, 1, Len(s) - 1))
    ELSE s

\* an optional minus sign and then decimal digits
IsSigned(t) == IsInt(t) \/ (Len(t) > 1 /\ t[1] = "-" /\ IsInt(Tail(t)))

\* the number a signed text denotes
Signed(t) == IF t[1] = "-" THEN 0 - ParseInt(Tail(t)) ELSE ParseInt(t)

\* float(s) succeeds on a text: blanks at the ends are ignored
IsFloatText(s) == IsSigned(Strip(s))

\* float(s) of a text
FloatOf(s) == Signed(Strip(s))

\* a JSON number: signed, and no leading zero
IsJsonNumber(t) ==
    /\ IsSigned(t)
    /\ \/ t[1] # "-" /\ (Len(t) = 1 \/ t[1] # "0")
       \/ t[1] = "-" /\ (Len(t) = 2 \/ t[2] # "0")

\* a JSON string: quotes around text without quotes
IsJsonString(t) ==
    /\ Len(t) >= 2
    /\ t[1] = "\"" /\ t[Len(t)] = "\""
    /\ \A i \in 2..(Len(t) - 1) : t[i] # "\""

\* json.loads of a text that is no array
JsonScalar(t) ==
    IF IsJsonNumber(t) THEN Number(Signed(t))
    ELSE IF IsJsonString(t) THEN String(SubSeq(t, 2, Len(t) - 1))
    ELSE Invalid

\* the array whose elements are the JSON texts in parts
JsonItems(parts) ==
    IF \E i \in 1..Len(parts) : JsonScalar(Strip(parts[i])).kind = "invalid"
    THEN Invalid
    ELSE Array([i \in 1..Len(parts) |-> JsonScalar(Strip(parts[i]))])

\* json.loads of the text between the brackets of an array
JsonArray(inner) ==
    IF Strip(inner) = <<>> THEN Array(<<>>) ELSE JsonItems(Split(inner, ","))

\* json.loads(s); the alphabet has no nested array and no comma in a string
json_loads(s) ==
    IF Len(Strip(s)) >= 2 /\ Strip(s)[1] = "[" /\ Strip(s)[Len(Strip(s))] = "]"
    THEN JsonArray(SubSeq(Strip(s), 2, Len(Strip(s)) - 1))
    ELSE JsonScalar(Strip(s))

\* float(x) succeeds on a JSON value: a number, or a string that reads as one
Floatable(x) == x.kind = "number" \/ (x.kind = "string" /\ IsFloatText(x.text))

\* float(x) of a JSON value
float(x) == IF x.kind = "number" THEN x.num ELSE FloatOf(x.text)

\* [float(x.strip()) for x in texts]
floats(texts) ==
    IF \E i \in 1..Len(texts) : ~IsFloatText(texts[i]) THEN Invalid
    ELSE Array([i \in 1..Len(texts) |-> Number(FloatOf(texts[i]))])

\* the branch for ?values=1&values=2&values=3
values_multiple(values_list) == floats(values_list)

\* a comma-separated text read as one value
values_comma_unsplit(values_param) == floats(<<values_param>>)

\* the branch for ?values=1,2,3
values_comma(values_param) == floats(Split(values_param, ","))

\* the branch for ?values=1
values_single(values_param) == floats(<<values_param>>)

\* the outcome of reading the array: the value, or the error of a 400
Read(array_data, error) ==
    [array_data |-> array_data,
     error |-> IF array_data.kind = "invalid" THEN error ELSE ""]

\* the three forms of the values parameter; values_param is the last one given
values_array_data(values_list, values_param) ==
    IF Len(values_list) > 1
    THEN Read(values_multiple(values_list),
              "Invalid number format in multiple values parameters")
    ELSE IF \E i \in 1..Len(values_param) : values_param[i] = ","
    THEN Read(values_comma(values_param),
              "Invalid number format in comma-separated values")
    ELSE Read(values_single(values_param),
              "Invalid number format in values parameter")

\* QueryDict.get: the last value given for the key, None (<<>>) without one
QueryGet(values_list) ==
    IF values_list = <<>> THEN <<>> ELSE values_list[Len(values_list)]

\* the GET branch: array first, then values, else nothing to sum
query_array_data(query) ==
    IF Get(query, "array", <<>>) # <<>>
    THEN Read(json_loads(query.array),
              "Invalid JSON array format in \"array\" parameter")
    ELSE IF QueryGet(Get(query, "values", <<>>)) # <<>>
    THEN values_array_data(query.values, QueryGet(query.values))
    ELSE Read(Invalid, "Missing required parameters")

\* a request body object, as opposed to a JSON value of another kind
IsDict(x) == "kind" \notin DOMAIN x

\* the POST branch: input_data.array of the body, [] without one
body_array_data(data) ==
    Read(Get(Get(data, "input_data", Empty), "array", Array(<<>>)), "")

\* the input_data the execution row records
input_data(method, data, array_data) ==
    IF method = "GET" THEN [array |-> array_data]
    ELSE Get(data, "input_data", Empty)

\* [float(x) for x in array_data]
numbers(array_data) ==
    [i \in 1..Len(array_data.items) |-> float(array_data.items[i])]

RECURSIVE sum(_)
\* sum(numbers), in the order of the sequence
sum(ns) == IF ns = <<>> THEN 0 ELSE sum(SubSeq(ns, 1, Len(ns) - 1)) + ns[Len(ns)]

\* a row of tools_toolexecution
ToolExecution(id, tool, input, output_data, status) ==
    [id |-> id, input_data |-> input, output_data |-> output_data,
     status |-> status, tool |-> tool]

\* what a request leaves behind: the response, the tool rows, the execution rows
ToolResponse(status, data, tls, execs) ==
    [data |-> data, executions |-> execs, status |-> status, tools |-> tls]

\* an early return with a 400
BadRequest(error, tls, execs) == ToolResponse(400, [error |-> error], tls, execs)

\* objects.filter(name=name): the keys of the rows with that name
Named(table, name) == {i \in DOMAIN table : table[i].name = name}

\* ToolCategory.objects.get_or_create(name='Math', ...), which is evaluated
\* as an argument before Tool.objects.get_or_create is called
get_or_create_math(tls) ==
    IF Named(tls.category, "Math") # {} THEN tls
    ELSE [tls EXCEPT
             !.category = [c \in DOMAIN tls.category \cup {tls.sequence.category + 1} |->
                              IF c \in DOMAIN tls.category THEN tls.category[c]
                              ELSE [name |-> "Math"]],
             !.sequence.category = tls.sequence.category + 1]

\* Tool.objects.get_or_create(name='Array Sum Tool', ...) raises
\* MultipleObjectsReturned: name alone is not unique
MultipleObjectsReturned(tls) == Cardinality(Named(tls.tool, "Array Sum Tool")) > 1

\* the tables after Tool.objects.get_or_create(name='Array Sum Tool', ...):
\* the row is inserted under 'Math' when no row has the name
get_or_create(tls) ==
    LET t == get_or_create_math(tls)
        math == CHOOSE c \in Named(t.category, "Math") : TRUE
    IN  IF Named(t.tool, "Array Sum Tool") # {} THEN t
        ELSE [t EXCEPT
                 !.tool = [i \in DOMAIN t.tool \cup {t.sequence.tool + 1} |->
                              IF i \in DOMAIN t.tool THEN t.tool[i]
                              ELSE [category |-> math, name |-> "Array Sum Tool"]],
                 !.sequence.tool = t.sequence.tool + 1]

\* ToolExecution.objects.create(tool=tool, ...): the row gets the next key
created(tls, execs, input, output_data, status) ==
    [executions |->
         Append(execs,
                ToolExecution(tls.sequence.execution + 1,
                              CHOOSE i \in Named(tls.tool, "Array Sum Tool") : TRUE,
                              input, output_data, status)),
     tools |-> [tls EXCEPT !.sequence.execution = tls.sequence.execution + 1]]

\* the except branch: Tool.objects.get(name='Array Sum Tool') and a failed
\* row if exactly one row has the name and the write is taken, and a 500 in
\* any case
record_failed(data, tls, execs, written) ==
    IF written /\ Cardinality(Named(tls.tool, "Array Sum Tool")) = 1
    THEN LET c == created(tls, execs, Get(data, "input_data", Empty), Empty, "failed")
         IN  ToolResponse(500, [error |-> "Calculation failed"], c.tools, c.executions)
    ELSE ToolResponse(500, [error |-> "Calculation failed"], tls, execs)

\* get_or_create of the tool row, the success row and the 200
record_success(input, ns, tls, execs) ==
    LET c == created(get_or_create(tls), execs, input,
                     [count |-> Len(ns), sum |-> sum(ns)], "success")
    IN  ToolResponse(200,
                     [count |-> Len(ns), execution_id |-> tls.sequence.execution + 1,
                      result |-> sum(ns)],
                     c.tools, c.executions)

\* the writes of a request with valid numbers.  When two rows are named
\* 'Array Sum Tool' get_or_create raises after the category was looked up.
\* With the database "down" get_or_create raises and nothing is written; with
\* it "flaky" the tool row is there, the success row is refused and the
\* failed row is taken.
record(input, data, ns, tls, execs, d) ==
    IF d = "down" THEN record_failed(data, tls, execs, FALSE)
    ELSE IF MultipleObjectsReturned(tls)
    THEN record_failed(data, get_or_create_math(tls), execs, TRUE)
    ELSE IF d = "ok" THEN record_success(input, ns, tls, execs)
    ELSE record_failed(data, get_or_create(tls), execs, TRUE)

\* the checks on the array that was read, and then the sum
calculate(method, data, read, tls, execs, d) ==
    IF read.error # "" THEN BadRequest(read.error, tls, execs)
    ELSE IF read.array_data.kind # "list"
    THEN BadRequest("Input must be an array", tls, execs)
    ELSE IF \E i \in 1..Len(read.array_data.items) :
                ~Floatable(read.array_data.items[i])
    THEN BadRequest("All array elements must be numbers", tls, execs)
    ELSE record(input_data(method, data, read.array_data), data,
                numbers(read.array_data), tls, execs, d)

\* ArraySumToolView._process_request
process_request(method, r, tls, execs, d) ==
    IF method = "GET"
    THEN calculate(method, r.data, query_array_data(r.query), tls, execs, d)
    ELSE IF ~IsDict(Get(r.data, "input_data", Empty))
    THEN record_failed(r.data, tls, execs, d = "ok")
    ELSE calculate(method, r.data, body_array_data(r.data), tls, execs, d)

\* the middleware before the view
array_sum(method, r, tls, execs, d) ==
    IF ~MiddlewarePasses(r.userid)
    THEN BadRequest("Invalid or inactive userid provided", tls, execs)
    ELSE process_request(method, r, tls, execs, d)

ReplyTool(out) ==
    /\ resp' = [data |-> out.data, status |-> out.status]
    /\ tools' = out.tools
    /\ executions' = out.executions
    /\ UNCHANGED <<expenses, next_id, categories, inflight>>

\* one array-sum request arrives and is handled
HandleTool(method, userid, query, data, d) ==
    LET r == Request(method, userid, NULL, query, data)
    IN  /\ req' = r
        /\ db' = d
        /\ ReplyTool(array_sum(method, r, tools, executions, d))

(* Requests to the array-sum tool *)

DigitChars == <<"0", "1", "2", "3", "4", "5", "6", "7", "8", "9">>

RECURSIVE str(_)
\* str(n): the decimal text of an integer
str(n) ==
    IF n < 0 THEN <<"-">> \o str(0 - n)
    ELSE IF n < 10 THEN <<DigitChars[n + 1]>>
    ELSE str(n \div 10) \o <<DigitChars[(n % 10) + 1]>>

\* the texts of the numbers of a sequence
Texts(seq) == [i \in 1..Len(seq) |-> str(seq[i])]

RECURSIVE Join(_, _)
\* sep.join(texts)
Join(texts, sep) ==
    IF texts = <<>> THEN <<>>
    ELSE IF Len(texts) = 1 THEN texts[1]
    ELSE texts[1] \o <<sep>> \o Join(Tail(texts), sep)

\* the number sequences the clients send
NumberSeqs == {<<>>, <<5>>, <<1, 2, 3>>, <<12, -1>>}

\* ?values=1,2,3
CommaSeparated(seq) == [values |-> <<Join(Texts(seq), ",")>>]

\* ?values=1&values=2&values=3; no parameter at all for no number
RepeatedValues(seq) == IF seq = <<>> THEN Empty ELSE [values |-> Texts(seq)]

\* ?array=[1,2,3]
JsonArrayParam(seq) == [array |-> <<"[">> \o Join(Texts(seq), ",") \o <<"]">>]

\* the body {"input_data": {"array": [1, 2, 3]}}
BodyArray(seq) ==
    [input_data |-> [array |-> Array([i \in 1..Len(seq) |-> Number(seq[i])])]]

EncodedQueries ==
    UNION {{CommaSeparated(seq), RepeatedValues(seq), JsonArrayParam(seq)} :
           seq \in NumberSeqs}

\* texts that are no JSON array, arrays and value lists with an element that
\* is no number, and two that float() accepts all the same
MalformedToolQueries ==
    {[array |-> <<"x">>],
     [array |-> <<"5">>],
     [array |-> <<"[", "1", ",", "]">>],
     [array |-> <<"[", "1", ",", "\"", "x", "\"", "]">>],
     [array |-> <<"[", "1", ",", "\"", "2", "\"", "]">>],
     [values |-> << <<"1", ",", "x">> >>],
     [values |-> << <<"1">>, <<"x">> >>],
     [values |-> << <<"x">> >>],
     [values |-> << <<"1", ",", " ", "2">> >>]}

\* more than one encoding in the query string
MixedToolQueries ==
    {[array |-> <<"[", "1", ",", "2", "]">>, values |-> << <<"7">> >>],
     [array |-> <<"x">>, values |-> << <<"7">> >>],
     [array |-> <<"[", "1", "]">>, values |-> << <<"x">> >>],
     [values |-> << <<"1", ",", "2">>, <<"3">> >>]}

ToolQueries == EncodedQueries \cup MalformedToolQueries \cup MixedToolQueries

\* the query strings sent along with a POST
PostQueries ==
    {Empty, JsonArrayParam(<<1, 2, 3>>), CommaSeparated(<<1, 2, 3>>),
     [array |-> <<"x">>], [values |-> << <<"x">> >>]}

ToolBodies ==
    {Empty, [input_data |-> Empty],
     [input_data |-> [array |-> Array(<<String(<<"x">>)>>)]],
     [input_data |-> [array |-> Array(<<Number(1), String(<<"2">>)>>)]],
     [input_data |-> [array |-> Array(<<Number(1), JsonNull>>)]],
     [input_data |-> [array |-> String(<<"x">>)]],
     [input_data |-> Array(<<Number(1)>>)]}
        \cup {BodyArray(seq) : seq \in NumberSeqs}

\* no account, and an account that is not active
ToolUserids == {<<>>, <<"3">>}

\* the execution table has room for one more row
Room == Len(executions) < MaxExecutions

ArraySumGet ==
    /\ Room
    /\ \E u \in ToolUserids, query \in ToolQueries, data \in {Empty, BodyArray(<<5>>)} :
           HandleTool("GET", u, query, data, "ok")

ArraySumPost ==
    /\ Room
    /\ \E u \in ToolUserids, query \in PostQueries, data \in ToolBodies :
           HandleTool("POST", u, query, data, "ok")

\* a request with valid numbers while the database refuses writes
ArraySumDbFailure ==
    /\ Room
    /\ \E d \in {"down", "flaky"} :
           \/ HandleTool("GET", <<>>, CommaSeparated(<<1, 2, 3>>), Empty, d)
           \/ HandleTool("POST", <<>>, Empty, BodyArray(<<1, 2, 3>>), d)

NextTool ==
    \/ ArraySumGet
    \/ ArraySumPost
    \/ ArraySumDbFailure

SpecTool == Init /\ [][NextTool]_vars

-----------------------------------------------------------------------------
(* The tools registry: ToolCategoryViewSet and ToolViewSet, two             *)
(* ModelViewSets without overrides of create, update or destroy.  A         *)
(* category row is [name]; a tool row is [category, name], the columns the  *)
(* array-sum tool looks at.                                                 *)

\* how many keys tools_toolcategory and tools_tool hand out
MaxToolCategories == 2

MaxTools == 2

\* the table with row `row` under key pk
Put(table, pk, row) ==
    [i \in DOMAIN table \cup {pk} |-> IF i = pk THEN row ELSE table[i]]

\* ToolCategorySerializer.is_valid: name is required unless partial and
\* unique among the other rows
ToolCategoryValid(tls, instance, data, partial) ==
    /\ (~partial) => "name" \in DOMAIN data
    /\ "name" \in DOMAIN data =>
           Named(tls.category, data.name) \subseteq {instance}

\* the row a valid body makes of a tool, the columns not sent being those of
\* the instance
ToolRow(tls, instance, data) ==
    [category |-> IF "category" \in DOMAIN data THEN data.category
                  ELSE tls.tool[instance].category,
     name |-> IF "name" \in DOMAIN data THEN data.name
              ELSE tls.tool[instance].name]

\* ToolSerializer.is_valid: name, description and category are required
\* unless partial, the category exists, and no other row has the same name
\* in the same category (unique_together)
ToolValid(tls, instance, data, partial) ==
    /\ (~partial) => {"name", "description", "category"} \subseteq DOMAIN data
    /\ "category" \in DOMAIN data => data.category \in DOMAIN tls.category
    /\ \A i \in DOMAIN tls.tool \ {instance} :
           tls.tool[i] # ToolRow(tls, instance, data)

\* CreateModelMixin.create of ToolCategoryViewSet
tool_category_create(tls, execs, r) ==
    IF ~ToolCategoryValid(tls, NULL, r.data, FALSE)
    THEN ToolResponse(400, <<>>, tls, execs)
    ELSE ToolResponse(201, [id |-> tls.sequence.category + 1],
             [tls EXCEPT
                 !.category = Put(tls.category, tls.sequence.category + 1,
                                  [name |-> r.data.name]),
                 !.sequence.category = tls.sequence.category + 1],
             execs)

\* UpdateModelMixin.update and partial_update of ToolCategoryViewSet
tool_category_update(tls, execs, r, partial) ==
    IF r.pk \notin DOMAIN tls.category THEN ToolResponse(404, <<>>, tls, execs)
    ELSE IF ~ToolCategoryValid(tls, r.pk, r.data, partial)
    THEN ToolResponse(400, <<>>, tls, execs)
    ELSE ToolResponse(200, [id |-> r.pk],
             [tls EXCEPT !.category[r.pk].name =
                             Get(r.data, "name", tls.category[r.pk].name)],
             execs)

\* the tool rows that go with a set of categories (Tool.category is CASCADE)
ToolsIn(tls, cats) == {i \in DOMAIN tls.tool : tls.tool[i].category \in cats}

\* the tables without the tool rows `gone`, and the execution rows without
\* those of the tools removed (ToolExecution.tool is CASCADE)
Removed(tls, execs, cats, gone) ==
    [executions |-> SelectSeq(execs, LAMBDA e : e.tool \notin gone),
     tools |-> [tls EXCEPT
                   !.category = [c \in DOMAIN tls.category \ cats |-> tls.category[c]],
                   !.tool = [i \in DOMAIN tls.tool \ gone |-> tls.tool[i]]]]

\* DestroyModelMixin.destroy of ToolCategoryViewSet
tool_category_destroy(tls, execs, r) ==
    IF r.pk \notin DOMAIN tls.category THEN ToolResponse(404, <<>>, tls, execs)
    ELSE LET left == Removed(tls, execs, {r.pk}, ToolsIn(tls, {r.pk}))
         IN  ToolResponse(204, <<>>, left.tools, left.executions)

\* CreateModelMixin.create of ToolViewSet
tool_create(tls, execs, r) ==
    IF ~ToolValid(tls, NULL, r.data, FALSE) THEN ToolResponse(400, <<>>, tls, execs)
    ELSE ToolResponse(201, [id |-> tls.sequence.tool + 1],
             [tls EXCEPT
                 !.tool = Put(tls.tool, tls.sequence.tool + 1,
                              ToolRow(tls, NULL, r.data)),
                 !.sequence.tool = tls.sequence.tool + 1],
             execs)

\* UpdateModelMixin.update and partial_update of ToolViewSet
tool_update(tls, execs, r, partial) ==
    IF r.pk \notin DOMAIN tls.tool THEN ToolResponse(404, <<>>, tls, execs)
    ELSE IF ~ToolValid(tls, r.pk, r.data, partial)
    THEN ToolResponse(400, <<>>, tls, execs)
    ELSE ToolResponse(200, [id |-> r.pk],
             [tls EXCEPT !.tool[r.pk] = ToolRow(tls, r.pk, r.data)], execs)

\* DestroyModelMixin.destroy of ToolViewSet
tool_destroy(tls, execs, r) ==
    IF r.pk \notin DOMAIN tls.tool THEN ToolResponse(404, <<>>, tls, execs)
    ELSE LET left == Removed(tls, execs, {}, {r.pk})
         IN  ToolResponse(204, <<>>, left.tools, left.executions)

\* the middleware, then the router of the two viewsets
DispatchRegistry(tls, execs, r) ==
    IF ~MiddlewarePasses(r.userid) THEN ToolResponse(400, <<>>, tls, execs)
    ELSE CASE r.action = "tool_category_create" -> tool_category_create(tls, execs, r)
           [] r.action = "tool_category_update" ->
                  tool_category_update(tls, execs, r, FALSE)
           [] r.action = "tool_category_partial_update" ->
                  tool_category_update(tls, execs, r, TRUE)
           [] r.action = "tool_category_destroy" -> tool_category_destroy(tls, execs, r)
           [] r.action = "tool_create" -> tool_create(tls, execs, r)
           [] r.action = "tool_update" -> tool_update(tls, execs, r, FALSE)
           [] r.action = "tool_partial_update" -> tool_update(tls, execs, r, TRUE)
           [] r.action = "tool_destroy" -> tool_destroy(tls, execs, r)

\* one registry request arrives and is handled
HandleRegistry(action, userid, pk, data) ==
    LET r == Request(action, userid, pk, Empty, data)
    IN  /\ req' = r
        /\ db' = "ok"
        /\ ReplyTool(DispatchRegistry(tools, executions, r))

(* Inputs and actions of the registry specification *)

RegistryUserids == {<<>>, <<"3">>}

RegistryPks == {1, 2}

ToolCategoryBodies == {[name |-> "Math"], [name |-> "Text"], Empty}

\* tools of the name the array-sum tool looks for and of another name, in
\* either category; a body without a description; an unknown category
ToolRegistryBodies ==
    {[category |-> 1, description |-> "d", name |-> "Array Sum Tool"],
     [category |-> 2, description |-> "d", name |-> "Array Sum Tool"],
     [category |-> 1, description |-> "d", name |-> "Word Count"],
     [category |-> 1, name |-> "Array Sum Tool"],
     [category |-> 9, description |-> "d", name |-> "Array Sum Tool"]}

ToolRegistryPatches == {[name |-> "Array Sum Tool"], [category |-> 2]}

\* the number sequences sent to the tool between the registry requests
RegistrySeqs == {<<1, 2, 3>>}

ToolCategoryCreate ==
    /\ tools.sequence.category < MaxToolCategories
    /\ \E u \in RegistryUserids, d \in ToolCategoryBodies :
           HandleRegistry("tool_category_create", u, NULL, d)

ToolCategoryUpdate ==
    /\ tools.category # <<>>
    /\ \E u \in RegistryUserids, pk \in RegistryPks, d \in ToolCategoryBodies :
           \/ HandleRegistry("tool_category_update", u, pk, d)
           \/ HandleRegistry("tool_category_partial_update", u, pk, d)

ToolCategoryDestroy ==
    /\ tools.category # <<>>
    /\ \E u \in RegistryUserids, pk \in RegistryPks :
           HandleRegistry("tool_category_destroy", u, pk, Empty)

ToolCreate ==
    /\ tools.sequence.tool < MaxTools
    /\ \E u \in RegistryUserids, d \in ToolRegistryBodies :
           HandleRegistry("tool_create", u, NULL, d)

ToolUpdate ==
    /\ tools.tool # <<>>
    /\ \E u \in RegistryUserids, pk \in RegistryPks :
           \/ \E d \in ToolRegistryBodies : HandleRegistry("tool_update", u, pk, d)
           \/ \E d \in ToolRegistryPatches :
                  HandleRegistry("tool_partial_update", u, pk, d)

ToolDestroy ==
    /\ tools.tool # <<>>
    /\ \E u \in RegistryUserids, pk \in RegistryPks :
           HandleRegistry("tool_destroy", u, pk, Empty)

\* an array-sum request with a valid numeric array, while the sequences have
\* keys left for the rows it may insert
RegistryArraySum ==
    /\ tools.sequence.execution < MaxExecutions
    /\ Named(tools.category, "Math") = {} =>
           tools.sequence.category < MaxToolCategories
    /\ Named(tools.tool, "Array Sum Tool") = {} =>
           tools.sequence.tool < MaxTools
    /\ \E seq \in RegistrySeqs :
           \/ HandleTool("GET", <<>>, CommaSeparated(seq), Empty, "ok")
           \/ HandleTool("POST", <<>>, Empty, BodyArray(seq), "ok")

NextRegistry ==
    \/ ToolCategoryCreate
    \/ ToolCategoryUpdate
    \/ ToolCategoryDestroy
    \/ ToolCreate
    \/ ToolUpdate
    \/ ToolDestroy
    \/ RegistryArraySum

SpecRegistry == Init /\ [][NextRegistry]_vars

-----------------------------------------------------------------------------
(* Properties.  Each is stated on the request handled last (req), the
   response it got (resp) and the table. *)

\* the elements of a sequence
Range(seq) == {seq[k] : k \in 1..Len(seq)}

\* how often x occurs in a sequence
Occurrences(seq, x) == Cardinality({k \in 1..Len(seq) : seq[k] = x})

\* the day number of a date, for comparing dates as integers
Ord(d) == d[1] * 10000 + d[2] * 100 + d[3]

\* the account a request is scoped to
ScopedTo == ParseInt(req.userid)

\* the keys of the rows the account of the request owns
Owned == {i \in DOMAIN expenses : expenses[i].user = ScopedTo}

\* the requests that name one row in the URL and change it
Mutations == {"update", "partial_update", "destroy", "add_tags", "remove_tags"}

(* --- the record store: Spec --- *)

\* C1: a list request scoped to account A shows only rows A owns, and a
\* retrieve request scoped to A for a row another account owns is answered 404.
C1_Isolation ==
    /\ (req.action = "list" /\ resp.status = 200) =>
           \A k \in 1..Len(resp.data) :
               /\ resp.data[k] \in DOMAIN expenses
               /\ expenses[resp.data[k]].user = ScopedTo
    /\ (/\ req.action = "retrieve"
        /\ UserResolves(req.userid)
        /\ req.pk \in DOMAIN expenses
        /\ expenses[req.pk].user # ScopedTo) => resp.status = 404

\* account 1 asked for a row of account 2 while owning a row itself, and got 404
C1_Witness ==
    /\ req.action = "retrieve"
    /\ req.userid = <<"1">>
    /\ req.pk \in DOMAIN expenses
    /\ expenses[req.pk].user = 2
    /\ Owned # {}
    /\ resp.status = 404

\* C2: an update, delete, add_tags or remove_tags request scoped to account A
\* that names a row another account owns is answered 404, and the row is
\* still there with the same fields, category and tags.
C2_ForeignUnchanged ==
    [][(/\ req'.action \in Mutations
        /\ UserResolves(req'.userid)
        /\ req'.pk \in DOMAIN expenses
        /\ expenses[req'.pk].user # ParseInt(req'.userid))
           => /\ resp'.status = 404
              /\ req'.pk \in DOMAIN expenses'
              /\ expenses'[req'.pk] = expenses[req'.pk]]_vars

\* account 1 asked to delete a row of account 2, which holds a tag, and got 404
C2_Witness ==
    /\ req.action = "destroy"
    /\ req.userid = <<"1">>
    /\ req.pk \in DOMAIN expenses
    /\ expenses[req.pk].user = 2
    /\ expenses[req.pk].tags # {}
    /\ resp.status = 404

\* two outcomes an account cannot tell apart: same status, same table left
SameOutcome(x, y) == x.status = y.status /\ x.table = y.table

\* the outcome of a request by account u on the table as it is
Outcome(action, u, pk, data) ==
    Dispatch(expenses, next_id, Request(action, u, pk, Empty, data), ById)

\* a create body whose related-record link names the row with key id
LinkBody(id) ==
    [amount |-> 10000, category_id |-> 1, date |-> D1, description |-> Tea,
     related_expense |-> id]

\* C3: whatever request account A makes that names a row id, in the URL or
\* as the related-record link of a create or update body, the status and the
\* table left are the same for an id no row has as for the id of a row
\* another account owns.
C3_AbsentOrNotOwned ==
    \A u \in {<<"1">>, <<"2">>} :
        \A foreign \in {i \in DOMAIN expenses : expenses[i].user # ParseInt(u)} :
            \A absent \in Pks \ DOMAIN expenses :
                /\ \A a \in {"retrieve", "destroy"} :
                       SameOutcome(Outcome(a, u, foreign, Empty),
                                   Outcome(a, u, absent, Empty))
                /\ \A d \in UpdateBodies :
                       SameOutcome(Outcome("update", u, foreign, d),
                                   Outcome("update", u, absent, d))
                /\ \A d \in PatchBodies :
                       SameOutcome(Outcome("partial_update", u, foreign, d),
                                   Outcome("partial_update", u, absent, d))
                /\ \A a \in {"add_tags", "remove_tags"}, d \in TagBodies :
                       SameOutcome(Outcome(a, u, foreign, d),
                                   Outcome(a, u, absent, d))
                /\ SameOutcome(Outcome("create", u, NULL, LinkBody(foreign)),
                               Outcome("create", u, NULL, LinkBody(absent)))
                /\ \A own \in {i \in DOMAIN expenses : expenses[i].user = ParseInt(u)} :
                       SameOutcome(
                           Outcome("partial_update", u, own, [related_expense |-> foreign]),
                           Outcome("partial_update", u, own, [related_expense |-> absent]))

(* --- the reports: SpecReport --- *)

\* a summary was produced
Summarised == req.action = "summary" /\ resp.status = 200

\* the rows of the account within the inclusive date bounds of the request
InScope ==
    {i \in Owned :
        /\ "date_from" \in DOMAIN req.query =>
               Ord(req.query.date_from) <= Ord(expenses[i].date)
        /\ "date_to" \in DOMAIN req.query =>
               Ord(expenses[i].date) <= Ord(req.query.date_to)}

\* the amounts of the rows of S of one kind, added up
KindTotal(S, kind) ==
    SumOver([i \in S |-> IF expenses[i].transaction_type = kind
                         THEN expenses[i].amount ELSE 0], S)

\* C4: the summary's net_balance is (total_income + total_credit) minus
\* (total_expenses + total_debt), to the cent.
C4_NetBalance ==
    Summarised =>
        resp.data.net_balance =
            (resp.data.total_income + resp.data.total_credit)
                - (resp.data.total_expenses + resp.data.total_debt)

\* a summary over an income, a credit and an expense
C4_Witness ==
    /\ Summarised
    /\ resp.data.total_income > 0
    /\ resp.data.total_credit > 0
    /\ resp.data.total_expenses > 0
    /\ resp.data.net_balance # 0

\* C5: over the rows of the account within the inclusive date_from/date_to
\* bounds, the summary reports for each of expense, income, debt and credit
\* the sum of the amounts of the rows of that kind (0 when there is none),
\* and transaction_count is the number of all those rows, repayments included.
C5_SummaryTotals ==
    Summarised =>
        /\ resp.data.total_expenses = KindTotal(InScope, "expense")
        /\ resp.data.total_income = KindTotal(InScope, "income")
        /\ resp.data.total_debt = KindTotal(InScope, "debt")
        /\ resp.data.total_credit = KindTotal(InScope, "credit")
        /\ resp.data.transaction_count = Cardinality(InScope)

\* a summary up to a date: a repayment dated that very day is counted, a
\* later row is left out, and no debt is in scope
C5_Witness ==
    /\ Summarised
    /\ "date_to" \in DOMAIN req.query
    /\ \E i \in InScope :
           /\ expenses[i].date = req.query.date_to
           /\ expenses[i].transaction_type = "repayment"
    /\ Owned \ InScope # {}
    /\ resp.data.total_debt = 0
    /\ resp.data.total_expenses > 0

\* the position of a category name in alphabetical order
Collation(name) ==
    CASE name = "Food" -> 1 [] name = "Rent" -> 2 [] name = "Salary" -> 3

\* C6: category_breakdown has one entry per category with an expense row in
\* scope, valued at the sum of those rows, the entries in descending order of
\* sum and, among equal sums, in ascending order of category name.
C6_BreakdownOrder ==
    Summarised =>
        LET b == resp.data.category_breakdown
            exp == {i \in InScope : expenses[i].transaction_type = "expense"}
            cats == {expenses[i].category : i \in exp}
        IN  /\ Len(b) = Cardinality(cats)
            /\ \A c \in cats :
                   \E k \in 1..Len(b) :
                       /\ b[k].name = ExpenseCategory[c].name
                       /\ b[k].total =
                              SumOver([i \in exp |-> IF expenses[i].category = c
                                                     THEN expenses[i].amount ELSE 0], exp)
            /\ \A k \in 1..(Len(b) - 1) :
                   \/ b[k].total > b[k + 1].total
                   \/ /\ b[k].total = b[k + 1].total
                      /\ Collation(b[k].name) < Collation(b[k + 1].name)

\* a monthly report was produced
Reported == req.action = "monthly_report" /\ resp.status = 200

RECURSIVE SeqSum(_)
\* the sum of a sequence of integers
SeqSum(seq) == IF seq = <<>> THEN 0 ELSE seq[1] + SeqSum(Tail(seq))

\* C7: in a monthly report the per-day totals add up to total_amount, the
\* per-category totals add up to total_amount, the per-day counts add up to
\* total_count, and the per-day entries are in ascending date order, one for
\* each date on which the account has a row in the month.
C7_MonthlyConsistent ==
    Reported =>
        LET d == resp.data.daily_totals
            c == resp.data.category_totals
        IN  /\ SeqSum([k \in 1..Len(d) |-> d[k].total]) = resp.data.total_amount
            /\ SeqSum([k \in 1..Len(c) |-> c[k].total]) = resp.data.total_amount
            /\ SeqSum([k \in 1..Len(d) |-> d[k].count]) = resp.data.total_count
            /\ \A k \in 1..(Len(d) - 1) : Ord(d[k].date) < Ord(d[k + 1].date)
            /\ {d[k].date : k \in 1..Len(d)} =
                   {expenses[i].date : i \in
                       {j \in Owned : /\ expenses[j].date[1] = resp.data.year
                                      /\ expenses[j].date[2] = resp.data.month}}

\* a report over two days and two categories
C7_Witness ==
    /\ Reported
    /\ Len(resp.data.daily_totals) >= 2
    /\ Len(resp.data.category_totals) >= 2
    /\ resp.data.total_count >= 3

\* C8: a monthly_report request of an active account with a month outside
\* 1..12 is answered 400.
C8_MonthOutOfRange ==
    (/\ req.action = "monthly_report"
     /\ UserResolves(req.userid)
     /\ "month" \in DOMAIN req.query
     /\ IsInt(req.query.month)
     /\ ParseInt(req.query.month) \notin 1..12) => resp.status = 400

(* --- the filters: SpecFilter --- *)

\* a list was produced
Listed == req.action = "list" /\ resp.status = 200

\* C9: whatever constraints a list request carries, the rows it shows are
\* among the rows the account owns, and the same request against a table
\* holding just the rows shown shows the same rows.
C9_FilterSubsetIdempotent ==
    Listed =>
        /\ Range(resp.data) \subseteq Owned
        /\ LET shown == [i \in Range(resp.data) \cap DOMAIN expenses |-> expenses[i]]
           IN  Dispatch(shown, next_id, req, ById).data = resp.data

\* all eight constraints at once: a row passes, a row of the account does not
C9_Witness ==
    /\ Listed
    /\ DOMAIN req.query = DOMAIN FullQuery
    /\ resp.data # <<>>
    /\ Owned \ Range(resp.data) # {}

\* the tag ids a tags constraint lists
ListedTags ==
    LET tag_list == Split(req.query.tags, ",")
    IN  {ParseInt(tag_list[k]) : k \in 1..Len(tag_list)}

\* C10: under a tags constraint alone, a row of the account is shown once if
\* it holds at least one of the listed tags and not at all otherwise.
C10_TagsAnyOnce ==
    (Listed /\ DOMAIN req.query = {"tags"}) =>
        /\ Range(resp.data) \subseteq Owned
        /\ \A i \in Owned :
               Occurrences(resp.data, i) =
                   IF expenses[i].tags \cap ListedTags # {} THEN 1 ELSE 0

\* a row holding two of the listed tags is shown, a row holding none is not
C10_Witness ==
    /\ Listed
    /\ DOMAIN req.query = {"tags"}
    /\ \E i \in Range(resp.data) : Cardinality(expenses[i].tags \cap ListedTags) >= 2
    /\ \E i \in Owned : expenses[i].tags \cap ListedTags = {}

\* a constraint value of the wrong form: an unknown transaction_type, a date
\* that is none, an amount bound or category that is no number, a tags entry
\* that is no number
Malformed(query) ==
    \/ "transaction_type" \in DOMAIN query /\
           query.transaction_type \notin {"expense", "income", "credit", "debt", "repayment"}
    \/ \E k \in {"date_from", "date_to"} \cap DOMAIN query :
           query[k][2] \notin 1..12 \/ query[k][3] \notin 1..31
    \/ \E k \in {"amount_min", "amount_max", "category"} \cap DOMAIN query :
           \E n \in 1..Len(query[k]) : query[k][n] \notin Digits
    \/ "tags" \in DOMAIN query /\
           \E n \in 1..Len(query.tags) : query.tags[n] \notin Digits \cup {","}

\* C11: a list or summary request of an active account that carries a
\* constraint value of the wrong form is answered 400.
C11_MalformedIs400 ==
    (/\ req.action \in {"list", "summary"}
     /\ UserResolves(req.userid)
     /\ Malformed(req.query)) => resp.status = 400

\* an array-sum request without account id
ToolRequest(method, query, data) == Request(method, <<>>, NULL, query, data)

\* the four encodings of one number sequence
EncodedRequests(seq) ==
    {ToolRequest("GET", CommaSeparated(seq), Empty),
     ToolRequest("GET", RepeatedValues(seq), Empty),
     ToolRequest("GET", JsonArrayParam(seq), Empty),
     ToolRequest("POST", Empty, BodyArray(seq))}

\* the request was answered with the sum and the count of seq, and the row
\* it wrote holds the numbers of seq in their order
Yields(seq) ==
    /\ resp.status = 200
    /\ resp.data.result = SeqSum(seq)
    /\ resp.data.count = Len(seq)
    /\ executions # <<>>
    /\ numbers(executions[Len(executions)].input_data.array) = seq

\* C12 as stated: whichever of the four encodings carries a number sequence,
\* the answer is its sum and its count and the numbers read are the sequence
\* in order; for <<1, 2, 3>> the sum is 6 and the count 3.
C12_EncodingsAgree ==
    \A seq \in NumberSeqs :
        (db = "ok" /\ req \in EncodedRequests(seq)) => Yields(seq)

\* C12, for sequences of at least one number: whichever of the four encodings
\* carries the sequence, the answer is its sum and its count and the numbers
\* read are the sequence in order.
C12_NonEmptyEncodingsAgree ==
    \A seq \in NumberSeqs \ {<<>>} :
        (db = "ok" /\ req \in EncodedRequests(seq)) => Yields(seq)

C12_Witness ==
    /\ req = ToolRequest("GET", CommaSeparated(<<1, 2, 3>>), Empty)
    /\ db = "ok"
    /\ resp.status = 200
    /\ resp.data.result = 6
    /\ resp.data.count = 3

\* an array-sum request that got past the middleware
Invoked(r) == r.action \in {"GET", "POST"} /\ MiddlewarePasses(r.userid)

HasArrayParam(r) == "array" \in DOMAIN r.query

HasValuesParam(r) == "values" \in DOMAIN r.query

HasBodyArray(r) ==
    /\ "input_data" \in DOMAIN r.data
    /\ IsDict(r.data.input_data)
    /\ "array" \in DOMAIN r.data.input_data

\* how many of the encodings a request carries
Encodings(r) ==
    (IF HasArrayParam(r) THEN 1 ELSE 0) + (IF HasValuesParam(r) THEN 1 ELSE 0)
        + (IF HasBodyArray(r) THEN 1 ELSE 0)

\* what the encoding of highest priority holds: the JSON array parameter
\* before the values parameter (repeated, comma-separated, single) before
\* the body array
Highest(r) ==
    IF HasArrayParam(r) THEN json_loads(r.query.array)
    ELSE IF HasValuesParam(r)
    THEN values_array_data(r.query.values, QueryGet(r.query.values)).array_data
    ELSE r.data.input_data.array

\* an array all of whose elements are numbers
WellFormed(v) ==
    v.kind = "list" /\ \A i \in 1..Len(v.items) : Floatable(v.items[i])

\* C13: a request that carries more than one encoding is answered with the
\* sum and the count of the sequence in its encoding of highest priority.
C13_HighestPriorityWins ==
    (/\ Invoked(req) /\ db = "ok"
     /\ Encodings(req) > 1
     /\ WellFormed(Highest(req)))
        => /\ resp.status = 200
           /\ resp.data.result = SeqSum(numbers(Highest(req)))
           /\ resp.data.count = Len(Highest(req).items)

\* C14: a request whose encoding of highest priority is no JSON array or
\* holds an element that is no number is answered 400 and reports no sum.
C14_MalformedIs400 ==
    (/\ Invoked(req) /\ db = "ok"
     /\ Encodings(req) > 0
     /\ ~WellFormed(Highest(req)))
        => resp.status = 400 /\ "result" \notin DOMAIN resp.data

\* C15: a request by GET or POST that carries no array parameter, no values
\* parameter and no body array is answered with the missing-input 400.
C15_MissingInputIs400 ==
    (Invoked(req) /\ db = "ok" /\ Encodings(req) = 0)
        => resp.status = 400 /\ "result" \notin DOMAIN resp.data

\* C16: every invocation, failed or not, adds exactly one execution row.
C16_OneRecordEach ==
    [][(Invoked(req') /\ db' = "ok") => Len(executions') = Len(executions) + 1]_vars

\* C17: when the execution row cannot be written, a request with valid
\* numbers is still answered 200 with their sum and count.
C17_AuditFailureSwallowed ==
    (/\ Invoked(req) /\ db # "ok"
     /\ WellFormed(Highest(req)))
        => /\ resp.status = 200
           /\ resp.data.result = SeqSum(numbers(Highest(req)))
           /\ resp.data.count = Len(Highest(req).items)

C19_CreateNeedsAccount ==
    [][(req'.action = "create" /\ ~UserResolves(req'.userid))
           => (resp'.status \in 400..499 /\ expenses' = expenses)]_vars

\* C20: an add_tags or remove_tags request on an existing row that has no
\* tag_ids or an empty list (sent by the owner of the row), or that carries
\* no account id, is answered 400 and leaves the tags of the row as they were.
C20_TagRequestRejected ==
    [][(/\ req'.action \in {"add_tags", "remove_tags"}
        /\ req'.pk \in DOMAIN expenses
        /\ \/ req'.userid = <<>>
           \/ /\ UserResolves(req'.userid)
              /\ expenses[req'.pk].user = ParseInt(req'.userid)
              /\ Get(req'.data, "tag_ids", <<>>) = <<>>)
           => (resp'.status = 400 /\ expenses' = expenses)]_vars

(* --- writes: SpecWrite and Spec --- *)

\* the key of the row a create or an update wrote
Written == IF req.action = "create" THEN resp.data[1] ELSE req.pk

\* a create, full update or partial update that succeeded
Wrote ==
    /\ req.action \in {"create", "update", "partial_update"}
    /\ resp.status \in {200, 201}

\* C21: after a successful create, full update or partial update the kind of
\* the row is the declared kind of its category.
C21_KindMatchesCategory ==
    Wrote =>
        expenses[Written].transaction_type
            = ExpenseCategory[expenses[Written].category].transaction_type

\* C22: every stored row has an amount of at least 0.01 (one cent), and a
\* create or update that supplies a smaller amount is rejected and leaves the
\* table as it was.
C22_AmountAtLeastOneCent ==
    [][/\ \A i \in DOMAIN expenses' : expenses'[i].amount >= 1
       /\ (/\ req'.action \in {"create", "update", "partial_update"}
           /\ "amount" \in DOMAIN req'.data
           /\ req'.data.amount < 10)
              => (resp'.status >= 400 /\ expenses' = expenses)]_vars

C22_Witness ==
    /\ req.action = "update"
    /\ req.data.amount = 0
    /\ req.pk \in DOMAIN expenses
    /\ UserResolves(req.userid)
    /\ expenses[req.pk].user = ParseInt(req.userid)
    /\ resp.status = 400

\* C25: a row created by a request of an account is stored with that account
\* as its owner, and no request changes the owner of a row.
C25_OwnerFixed ==
    [][/\ (req'.action = "create" /\ resp'.status = 201)
              => expenses'[resp'.data[1]].user = ParseInt(req'.userid)
       /\ \A i \in DOMAIN expenses \cap DOMAIN expenses' :
              expenses'[i].user = expenses[i].user]_vars

C25_Witness ==
    /\ req.action = "partial_update"
    /\ "user" \in DOMAIN req.data
    /\ resp.status = 200
    /\ expenses[req.pk].user # req.data.user

\* C26: a create, update, delete, add_tags or remove_tags request that is
\* answered with an error leaves the rows and their tag sets as they were.
C26_ErrorLeavesStore ==
    [][(/\ req'.action \in {"create", "update", "partial_update", "destroy",
                            "add_tags", "remove_tags"}
        /\ resp'.status >= 400)
           => expenses' = expenses]_vars

C26_Witness ==
    /\ req.action = "partial_update"
    /\ resp.status = 400
    /\ req.pk \in DOMAIN expenses
    /\ UserResolves(req.userid)
    /\ expenses[req.pk].user = ParseInt(req.userid)
    /\ DOMAIN req.data = {"category_id", "transaction_type"}

\* C28: every tag attached to a row is owned by the account that owns the
\* row.
C28_TagsOfOwner ==
    \A i \in DOMAIN expenses :
        \A t \in expenses[i].tags : ExpenseTag[t].user = expenses[i].user

C28_Witness ==
    /\ req.action = "add_tags"
    /\ resp.status = 200
    /\ \E k \in 1..Len(req.data.tag_ids) :
           ExpenseTag[req.data.tag_ids[k]].user # expenses[req.pk].user
    /\ expenses[req.pk].tags # {}

\* C29: the summary's net_balance is the sum of balance_effect over the rows
\* of the account within the date bounds of the request.
C29_NetBalanceIsSumOfEffects ==
    Summarised =>
        resp.data.net_balance
            = SumOver([i \in InScope |-> balance_effect(expenses[i])], InScope)

\* a request to the category endpoints
CategoryRequest(r) ==
    r.action \in {"category_list", "category_create", "category_update",
                  "category_partial_update", "category_destroy"}

\* C23: no category request removes a category from the store or a record
\* that references one: every category and every record stored before the
\* request is stored after it.
C23_NothingRemoved ==
    [][CategoryRequest(req') =>
          /\ DOMAIN categories \subseteq DOMAIN categories'
          /\ DOMAIN expenses \subseteq DOMAIN expenses']_vars

\* the accounts whose username and password a login body carries
Authenticated(data) ==
    {u \in DOMAIN auth_user :
        /\ "username" \in DOMAIN data /\ "password" \in DOMAIN data
        /\ auth_user[u].username = data.username
        /\ auth_user[u].password = data.password}

\* C24: a login request without credentials is answered 400, one whose
\* username and password match no account is answered 401, and one with the
\* username and password of an account is answered 200 with the details of
\* that account.
C24_LoginByCredentials ==
    req.action = "login" =>
        IF req.data = Empty THEN resp.status = 400
        ELSE IF Authenticated(req.data) = {} THEN resp.status = 401
        ELSE /\ resp.status = 200
             /\ resp.data.user.id \in Authenticated(req.data)

\* the columns of a row, without its tag set
Columns(row) == [row EXCEPT !.tags = {}]

\* two updates of one record have both done their last write
BothDone ==
    /\ Len(inflight) = 2
    /\ inflight[1].pc = "done" /\ inflight[2].pc = "done"
    /\ inflight[1].r.pk = inflight[2].r.pk

\* C27: when two concurrent updates of one record are both done, the record
\* (columns, category and tag set together) is what the update that wrote
\* last wrote: its columns, and its tag set if it wrote one.  The update that
\* wrote last is the one answered last.
C27_LastWriteWins ==
    BothDone =>
        \E w \in 1..2 :
            /\ inflight[w].r = req
            /\ Columns(expenses[req.pk]) = Columns(WrittenBy(inflight[w]))
            /\ HasTags(inflight[w]) =>
                   expenses[req.pk].tags = WrittenBy(inflight[w]).tags

\* C30: whatever create, update and delete requests the tools registry has
\* served, an array-sum request with a valid numeric array is answered 200
\* with the sum and the count of the array.
C30_ArraySumSurvives ==
    \A seq \in RegistrySeqs :
        req \in EncodedRequests(seq) =>
            /\ resp.status = 200
            /\ resp.data.result = SeqSum(seq)
            /\ resp.data.count = Len(seq)

=============================================================================
